---- MODULE Spec2Model ----
(***************************************************************************)
(* A model of the wifinina-rs driver: the chip-select gate                 *)
(* (src/src/chip_select.rs), the command/response transport                *)
(* (src/src/commands.rs) and the socket operations                         *)
(* (src/src/commands/socket.rs, src/src/commands/wifi.rs).                 *)
(*                                                                         *)
(* The driver is single-threaded and synchronous.  Each layer has a        *)
(* specification of its own:                                               *)
(*   SpecCS    the chip-select handshake, poll by poll, with the real      *)
(*             budgets, for any operation that acquires the bus;           *)
(*   SpecSend  send_command, bus write by bus write;                       *)
(*   SpecSock  the socket operations, exchange by exchange; an exchange    *)
(*             is SendAndReceive applied to what the co-processor and the  *)
(*             pins present;                                               *)
(*   SpecRecv  receive_response applied to replies of every shape, among   *)
(*             them the bytes send_command writes.                         *)
(* FairSock and FairScope are SpecSock with the fairness that the          *)
(* synchronous calls and the scope of a ConnectedSocket justify.           *)
(* The pins, the bus, and the co-processor are the environment: every      *)
(* value they present is chosen nondeterministically from a bounded set.   *)
(***************************************************************************)
EXTENDS Integers, Sequences, FiniteSets, TLC

VARIABLES
    \* ---- chip-select gate (SpecCS) ----
    cs,                 \* level of the select line: "high" (inactive) or "low"
    csPc,               \* position in the operation that acquires the bus
    csOp,               \* the operation: wait_for_busy, send_command, receive_response,
                        \* send_and_receive
    attempt,            \* loop variable of the running wait_for_busy loop
    reads,              \* reads of the busy line by the running wait_for_busy call
    delays,             \* delay_ms(1) calls by the running wait_for_busy call
    lastRead,           \* the last value read from the busy line in this select
    lowDrives,          \* set_low calls made by this select
    selRes,             \* result of select: "none", "Ok", or a WifiNinaChipSelectError
    selPhase,           \* the phase select was in when it returned (0 before any)
    opRet,              \* what the operation returned: "none", "Ok", or an Error
    last_deselect_err,  \* WifiNinaChipSelect::last_deselect_err
    xfers,              \* bytes transferred on the bus in this acquisition
    csWriteFailed,      \* some write of the select line has failed so far
    acqs,               \* calls of select made by this operation
    releases,           \* calls of deselect made by this operation
    \* ---- send_command (SpecSend) ----
    sPc,                \* position in send_command
    sCmd,               \* the command
    sParams,            \* the parameter list
    s16,                \* Params::use_16_bit_length
    sIdx,               \* parameters written so far
    sent_len,           \* send_command's own byte count
    bus,                \* every byte written on the bus by this call
    sRet,               \* what send_command returned
    \* ---- socket operations (SpecSock) ----
    kPc,                \* position in the running driver operation
    kOp,                \* the operation the caller invoked
    kVia,               \* it was invoked through the live ConnectedSocket
    kSock,              \* the number of the Socket it works on
    kDest,              \* Destination: "Ip" or "Hostname"
    kCap,               \* buf.len() of socket_read
    kData,              \* the bytes given to socket_write
    kRet,               \* what the operation returned
    conn,               \* the number of the live ConnectedSocket, -1 if none
    closes,             \* socket_close calls made for the ConnectedSocket
    closeArg,           \* the socket number given to the last of them
    closeFrames,        \* stop-client frames written whole by them
    closeRes,           \* the result of the last of them
    gotHandle,          \* the handle value decoded from the co-processor's reply
    oIter,              \* loop index of socket_open's polling loop
    polls,              \* socket_status calls made by socket_open
    openDelayMs,        \* milliseconds socket_open has delayed
    last_status,        \* socket_open's last_status
    available,          \* socket_read's available
    xchg,               \* send_and_receive calls of this operation, per command
    lastFrame,          \* the request frame written by the last exchange
    lastBody,           \* the reply bytes the co-processor gave in the last exchange
    lastErr,            \* what the last send_and_receive returned
    \* ---- receive_response (SpecRecv) ----
    rPc,                \* position in receive_response
    rCase,              \* its arguments, the result of its select, and the wire
    rStart,             \* what wait_for_response_start returned
    rOut                \* what receive_response returned

csVars == <<cs, csPc, csOp, attempt, reads, delays, lastRead, lowDrives,
            selRes, selPhase, opRet, last_deselect_err, xfers, csWriteFailed,
            acqs, releases>>
sendVars == <<sPc, sCmd, sParams, s16, sIdx, sent_len, bus, sRet>>
sockVars == <<kPc, kOp, kVia, kSock, kDest, kCap, kData, kRet, conn, closes,
              closeArg, closeFrames, closeRes, gotHandle, oIter, polls,
              openDelayMs, last_status, available, xchg, lastFrame, lastBody,
              lastErr>>
recvVars == <<rPc, rCase, rStart, rOut>>
notCsVars == <<sendVars, sockVars, recvVars>>
notSendVars == <<csVars, sockVars, recvVars>>
notSockVars == <<csVars, sendVars, recvVars>>
notRecvVars == <<csVars, sendVars, sockVars>>
vars == <<csVars, sendVars, sockVars, recvVars>>

(***************************************************************************)
(* Wire constants.                                                         *)
(***************************************************************************)
CMD_START == 224        \* NinaCommand::Start = 0xE0
CMD_END == 238          \* NinaCommand::End = 0xEE
CMD_ERROR == 239        \* NinaCommand::Error = 0xEF
REPLY_FLAG == 128       \* 1 << 7
RESPONSE_ACK == 1       \* NinaResponse::Ack
INVALID == 255          \* InvalidSocket::INVALID

(***************************************************************************)
(* The chip-select gate.                                                   *)
(***************************************************************************)
SELECT_READY_BUDGET == 10000    \* select: wait_for_busy(delay, 10_000, false)
SELECT_ACK_BUDGET == 1000       \* select: wait_for_busy(delay, 1_000, true)

\* Bound: bytes one operation transfers while it holds the bus in SpecCS.
MaxXfer == 2

CsOps == {"wait_for_busy", "send_command", "receive_response", "send_and_receive"}

\* A conversion that reports every failure of select as a timeout.
ErrorFrom_Timeout(err) == "ChipSelectTimeout"

\* impl From<WifiNinaChipSelectError> for Error
ErrorFrom(err) ==
    CASE err = "BusyPinError" -> "ChipSelectPinError"
      [] err = "CsPinError" -> "ChipSelectPinError"
      [] err = "DeviceReadyTimeout" -> "ChipSelectTimeout"

LoopHasNext_OneMore(a, timeout) == a <= timeout

\* The `for attempt in 0..timeout` loop of wait_for_busy has an iteration left.
LoopHasNext(a, timeout) == a < timeout

\* A wait that takes any level for the awaited one.
Awaited_Any(b, val) == TRUE

\* wait_for_busy: the value read is the awaited one (`b == val`).
Awaited(b, val) == b = val

\* is_high() of the busy pin: "high" (Ok(true), busy), "low" (Ok(false), not
\* busy), or "err" for a failed read.
BusyReadings == {"high", "low", "err"}
\* A pin write succeeds or fails.
PinWrites == {"ok", "err"}

\* select failed with `err` in `phase`: the `?` in select and in the caller
\* returns at once; no SafeSpi was made, so nothing deselects.
SelectFails(err, phase) ==
    /\ selRes' = err
    /\ selPhase' = phase
    /\ opRet' = ErrorFrom(err)
    /\ csPc' = "returned"

\* An operation starts: the first statement of wait_for_busy (commands.rs),
\* send_command and receive_response is chip_select.select(...).
CsBegin ==
    /\ csPc \in {"idle", "returned"}
    /\ \E op \in CsOps : csOp' = op
    /\ csPc' = "wait1"
    /\ attempt' = 0
    /\ reads' = 0
    /\ delays' = 0
    /\ lastRead' = "none"
    /\ lowDrives' = 0
    /\ selRes' = "none"
    /\ selPhase' = 0
    /\ opRet' = "none"
    /\ xfers' = 0
    /\ acqs' = 1
    /\ releases' = 0
    /\ UNCHANGED <<cs, last_deselect_err, csWriteFailed>>
    /\ UNCHANGED notCsVars

\* One iteration of the loop of wait_for_busy(delay, timeout, val) in `phase`.
CsPoll(phase, timeout, val, nextPc) ==
    /\ LoopHasNext(attempt, timeout)
    /\ \E b \in BusyReadings :
        /\ reads' = reads + 1
        /\ lastRead' = b
        /\ IF b = "err"
           THEN /\ SelectFails("BusyPinError", phase)
                /\ UNCHANGED <<attempt, delays>>
           ELSE IF Awaited(b, val)
           THEN /\ csPc' = nextPc
                /\ attempt' = 0
                /\ IF nextPc = "held"
                   THEN selRes' = "Ok" /\ selPhase' = phase
                   ELSE UNCHANGED <<selRes, selPhase>>
                /\ UNCHANGED <<delays, opRet>>
           ELSE /\ delays' = delays + 1
                /\ attempt' = attempt + 1
                /\ UNCHANGED <<csPc, selRes, selPhase, opRet>>
    /\ UNCHANGED <<cs, csOp, lowDrives, last_deselect_err, xfers, csWriteFailed,
                   acqs, releases>>

\* The loop of wait_for_busy ran out: Err(DeviceReadyTimeout).
CsTimeout(phase, timeout) ==
    /\ ~LoopHasNext(attempt, timeout)
    /\ SelectFails("DeviceReadyTimeout", phase)
    /\ UNCHANGED <<cs, csOp, attempt, reads, delays, lastRead, lowDrives,
                   last_deselect_err, xfers, csWriteFailed, acqs, releases>>

\* select, phase 1: wait until the busy line reads low (not busy).
CsPollReady ==
    /\ csPc = "wait1"
    /\ CsPoll(1, SELECT_READY_BUDGET, "low", "setlow")
    /\ UNCHANGED notCsVars

CsTimeoutReady ==
    /\ csPc = "wait1"
    /\ CsTimeout(1, SELECT_READY_BUDGET)
    /\ UNCHANGED notCsVars

\* select: self.cs.set_low().  A failed write leaves the line as it was.
CsSetLow ==
    /\ csPc = "setlow"
    /\ lowDrives' = lowDrives + 1
    /\ \E w \in PinWrites :
        IF w = "ok"
        THEN /\ cs' = "low"
             /\ csPc' = "wait2"
             \* the second wait_for_busy call starts
             /\ reads' = 0
             /\ delays' = 0
             /\ lastRead' = "none"
             /\ UNCHANGED <<selRes, selPhase, opRet, csWriteFailed>>
        ELSE /\ SelectFails("CsPinError", 1)
             /\ csWriteFailed' = TRUE
             /\ UNCHANGED <<cs, reads, delays, lastRead>>
    /\ UNCHANGED <<csOp, attempt, last_deselect_err, xfers, acqs, releases>>
    /\ UNCHANGED notCsVars

\* select, phase 2: wait until the busy line reads high (the co-processor has
\* taken the transaction).  On success select returns the SafeSpi.
CsPollAck ==
    /\ csPc = "wait2"
    /\ CsPoll(2, SELECT_ACK_BUDGET, "high", "held")
    /\ UNCHANGED notCsVars

CsTimeoutAck ==
    /\ csPc = "wait2"
    /\ CsTimeout(2, SELECT_ACK_BUDGET)
    /\ UNCHANGED notCsVars

\* A send_and_receive that never goes on to receive_response.
SendsFirst_Never(op, n) == FALSE

\* send_and_receive has not finished `self.send_command(command, send_params)?`.
SendsFirst(op, n) == op = "send_and_receive" /\ n = 1

\* While the SafeSpi is held, send_command and receive_response transfer bytes.
CsTransfer ==
    /\ csPc = "held"
    /\ csOp # "wait_for_busy"
    /\ xfers < MaxXfer
    /\ xfers' = xfers + 1
    /\ UNCHANGED <<cs, csPc, csOp, attempt, reads, delays, lastRead, lowDrives,
                   selRes, selPhase, opRet, last_deselect_err, csWriteFailed,
                   acqs, releases>>
    /\ UNCHANGED notCsVars

\* A deselect that keeps no record of a failed set_high.
Deselect_Forgets(w) ==
    /\ last_deselect_err' = "None"
    /\ cs' = IF w = "ok" THEN "high" ELSE cs
    /\ csWriteFailed' = (csWriteFailed \/ w = "err")

\* ChipSelect::deselect: last_deselect_err = cs.set_high().map_err(..).err()
Deselect(w) ==
    /\ last_deselect_err' = IF w = "ok" THEN "None" ELSE "CsPinError"
    /\ cs' = IF w = "ok" THEN "high" ELSE cs
    /\ csWriteFailed' = (csWriteFailed \/ w = "err")

\* The operation returns, with success or with an error of its own (a bus
\* error or a framing error); the SafeSpi goes out of scope and deselects.
CsRelease ==
    /\ csPc = "held"
    /\ \E w \in PinWrites : Deselect(w)
    /\ releases' = releases + 1
    /\ \E r \in IF csOp = "wait_for_busy" THEN {"Ok"}
                ELSE IF csOp = "send_command" THEN {"Ok", "SpiError"}
                ELSE IF SendsFirst(csOp, acqs) THEN {"SpiError"}
                ELSE {"Ok", "SpiError", "ResponseTimeout", "ErrorResponse"} :
          opRet' = r
    /\ csPc' = "returned"
    /\ UNCHANGED <<csOp, attempt, reads, delays, lastRead, lowDrives,
                   selRes, selPhase, xfers, acqs>>
    /\ UNCHANGED notCsVars

\* send_and_receive: send_command returned Ok(()), its SafeSpi went out of
\* scope and deselected; receive_response starts and calls select.
CsHandOver ==
    /\ csPc = "held"
    /\ SendsFirst(csOp, acqs)
    /\ \E w \in PinWrites : Deselect(w)
    /\ releases' = releases + 1
    /\ acqs' = acqs + 1
    /\ csPc' = "wait1"
    /\ attempt' = 0
    /\ reads' = 0
    /\ delays' = 0
    /\ lastRead' = "none"
    /\ lowDrives' = 0
    /\ selRes' = "none"
    /\ selPhase' = 0
    /\ xfers' = 0
    /\ UNCHANGED <<csOp, opRet>>
    /\ UNCHANGED notCsVars

CsInit ==
    /\ cs = "high"              \* WifiNinaChipSelect::new drives the line high
    /\ csPc = "idle"
    /\ csOp = "wait_for_busy"
    /\ attempt = 0
    /\ reads = 0
    /\ delays = 0
    /\ lastRead = "none"
    /\ lowDrives = 0
    /\ selRes = "none"
    /\ selPhase = 0
    /\ opRet = "none"
    /\ last_deselect_err = "None"
    /\ xfers = 0
    /\ csWriteFailed = FALSE
    /\ acqs = 0
    /\ releases = 0

(***************************************************************************)
(* Claims about the chip-select gate (checked under SpecCS).               *)
(***************************************************************************)

\* C1: whenever an operation that acquires the bus has returned, with success
\* or with any error, the select line is at its inactive (high) level.  Stated
\* here for the runs in which every write of the select line succeeded, so
\* that a violation is the driver's doing and not the pin's.
C1_BusReleasedOnReturn ==
    (csPc = "returned" /\ ~csWriteFailed) => cs = "high"

\* C6: select fails with DeviceReadyTimeout (surfaced as ChipSelectTimeout)
\* after exactly 10,000 reads of the busy line, each followed by a 1 ms delay,
\* that all read busy, without ever driving the select line; and after exactly
\* 1,000 such reads that all read not-busy once the line is driven active.  A
\* phase ends at the first read that shows the awaited level.
C6_ReadinessBudgets ==
    /\ (csPc = "returned" /\ selRes = "DeviceReadyTimeout" /\ selPhase = 1) =>
            /\ reads = 10000 /\ delays = 10000
            /\ lastRead = "high"
            /\ lowDrives = 0
            /\ opRet = "ChipSelectTimeout"
    /\ (csPc = "returned" /\ selRes = "DeviceReadyTimeout" /\ selPhase = 2) =>
            /\ reads = 1000 /\ delays = 1000
            /\ lastRead = "low"
            /\ lowDrives = 1
            /\ opRet = "ChipSelectTimeout"
    \* while a phase waits, every read so far showed the other level
    /\ csPc = "wait1" => reads = delays /\ lastRead \in {"none", "high"} /\ lowDrives = 0
    /\ csPc = "wait2" => reads = delays /\ lastRead \in {"none", "low"} /\ lowDrives = 1
    \* a phase ends at the first read that shows the awaited level
    /\ csPc = "setlow" => lastRead = "low" /\ reads = delays + 1 /\ reads <= 10000
    /\ csPc = "held" => lastRead = "high" /\ reads = delays + 1 /\ reads <= 1000
                         /\ selRes = "Ok"

\* The second phase timed out: 1,000 reads after the line was driven active.
C6_Witness ==
    /\ csPc = "returned" /\ selRes = "DeviceReadyTimeout" /\ selPhase = 2
    /\ reads = 1000 /\ lowDrives = 1

\* A byte goes over the bus in this step.
ByteMoves == xfers' = xfers + 1
\* The operation is inside select or holds the bus.
Acquiring == csPc \in {"wait1", "setlow", "wait2", "held"}

\* C17: a send_and_receive that returns Ok has called select exactly twice
\* and deselect after each; receive_response calls select only after
\* send_command returned Ok and its bus access deselected (the line is high
\* again unless that pin write failed), so every request byte moves before
\* that deselect and every reply byte after it; and a send_and_receive whose
\* send_command fails returns that error without a second select.
C17_TwoPhaseExchange ==
    /\ [](csOp = "send_and_receive" =>
            /\ (csPc = "returned" /\ opRet = "Ok") => acqs = 2 /\ releases = 2
            /\ (csPc = "returned" /\ acqs = 1) => opRet # "Ok" /\ releases <= 1
            /\ Acquiring => releases = acqs - 1
            /\ acqs \in {1, 2})
    /\ [][csOp = "send_and_receive" =>
            /\ ByteMoves => releases = acqs - 1 /\ cs = "low" /\ csPc = "held"
            /\ acqs' = 2 /\ acqs = 1 =>
                 /\ csPc = "held" /\ selRes = "Ok" /\ csPc' = "wait1"
                 /\ releases' = 1 /\ xfers' = 0 /\ opRet' = "none"
                 /\ last_deselect_err' = "None" => cs' = "high"
                 /\ last_deselect_err' # "None" => csWriteFailed']_vars

\* A send_and_receive returned Ok after request bytes and reply bytes.
C17_Witness ==
    /\ csOp = "send_and_receive" /\ csPc = "returned" /\ opRet = "Ok"
    /\ acqs = 2 /\ releases = 2 /\ xfers > 0 /\ cs = "high"

\* A send_and_receive returned the bus error of its send_command.
C17_WitnessSendFails ==
    /\ csOp = "send_and_receive" /\ csPc = "returned" /\ opRet = "SpiError"
    /\ acqs = 1 /\ releases = 1 /\ xfers > 0

\* C18: a byte moves on the bus only while the operation holds the bus with
\* the select line low, after this select read the busy line low, then drove
\* the select line low (once), then read the busy line high; the select line
\* is driven low only after the busy line read low; and a bus access exists
\* only when every earlier one of the operation has deselected.
C18_GatedBusTraffic ==
    /\ [][ByteMoves =>
            /\ csPc = "held" /\ cs = "low" /\ cs' = "low"
            /\ selRes = "Ok" /\ selPhase = 2
            /\ lowDrives = 1 /\ lastRead = "high"]_vars
    /\ [][lowDrives' = lowDrives + 1 =>
            csPc = "setlow" /\ lastRead = "low" /\ lowDrives = 0 /\ xfers = 0]_vars
    /\ [](/\ csPc = "wait2" => cs = "low" /\ lowDrives = 1 /\ xfers = 0
          /\ csPc = "held" => cs = "low" /\ lowDrives = 1 /\ lastRead = "high"
                               /\ releases = acqs - 1
          /\ csPc \in {"wait1", "setlow"} => xfers = 0
          /\ xfers > 0 => selRes = "Ok"
          /\ releases <= acqs)

\* receive_response moved bytes while it held the bus.
C18_Witness ==
    /\ csOp = "receive_response" /\ csPc = "held" /\ xfers = 2
    /\ cs = "low" /\ lastRead = "high" /\ lowDrives = 1

\* select has failed on a pin: a read of the busy line or the set_low write.
PinFailed == selRes \in {"BusyPinError", "CsPinError"}

\* What holds once select has failed, and what holds of a failing step.
PinAbortState ==
    /\ lastRead = "err" =>
          /\ csPc = "returned" /\ selRes = "BusyPinError"
          /\ selPhase \in {1, 2}
    /\ selRes \notin {"none", "Ok"} =>
          /\ csPc = "returned" /\ xfers = 0 /\ releases = acqs - 1
          /\ lowDrives <= 1
          /\ opRet = IF PinFailed THEN "ChipSelectPinError"
                     ELSE "ChipSelectTimeout"
          /\ PinFailed <=> \/ lastRead = "err"
                           \/ /\ lowDrives = 1 /\ selPhase = 1
                              /\ reads > 0 /\ lastRead = "low"
    /\ selRes = "DeviceReadyTimeout" =>
          /\ delays = reads
          /\ reads = IF selPhase = 1 THEN SELECT_READY_BUDGET
                     ELSE SELECT_ACK_BUDGET
PinAbortStep ==
    /\ (csPc \in {"wait1", "wait2"} /\ lastRead' = "err") =>
          /\ reads' = reads + 1 /\ delays' = delays
          /\ csPc' = "returned" /\ selRes' = "BusyPinError"
          /\ selPhase' = (IF csPc = "wait1" THEN 1 ELSE 2)
          /\ cs' = cs /\ lowDrives' = lowDrives
    /\ (csPc = "setlow" /\ csPc' # "wait2") =>
          /\ csPc' = "returned" /\ selRes' = "CsPinError"
          /\ cs' = cs /\ reads' = reads /\ delays' = delays
          /\ lastRead' = "low"
    /\ (csPc = "returned" /\ selRes \notin {"none", "Ok"}) =>
          (csPc' = "wait1" /\ acqs' = 1 /\ selRes' = "none")

\* C23: a failed read of the busy line, in either wait, ends select in that
\* step with BusyPinError, with no delay after the read; a failed set_low
\* ends select with CsPinError before any read of the second wait; both
\* reach the caller as ChipSelectPinError and a timeout as ChipSelectTimeout;
\* after either the operation has returned: no more reads, writes or bytes.
C23_PinErrorsAbort == []PinAbortState /\ [][PinAbortStep]_vars

\* The first read of the second wait failed: select returned with the line low.
C23_Witness ==
    /\ csPc = "returned" /\ selRes = "BusyPinError" /\ selPhase = 2
    /\ lastRead = "err" /\ reads = 1 /\ delays = 0 /\ lowDrives = 1
    /\ opRet = "ChipSelectPinError"

\* The step in which the operation gives up its access to the bus.
Releasing == csPc = "held" /\ csPc' # "held"
\* What the operation that held the access may return, whatever deselect did.
OwnResults ==
    IF csOp = "wait_for_busy" THEN {"Ok"}
    ELSE IF csOp = "send_command" THEN {"Ok", "SpiError"}
    ELSE {"Ok", "SpiError", "ResponseTimeout", "ErrorResponse"}
DeselectStep ==
    /\ Releasing =>
          /\ cs = "low"
          /\ \/ cs' = "high" /\ last_deselect_err' = "None"
             \/ cs' = "low" /\ last_deselect_err' = "CsPinError" /\ csWriteFailed'
          /\ csPc' = "returned" => opRet' \in OwnResults
          /\ csPc' # "returned" => csPc' = "wait1" /\ opRet' = opRet
    /\ ~Releasing => last_deselect_err' = last_deselect_err

C24_WitnessLater ==
    /\ csPc = "wait1" /\ acqs = 1 /\ attempt = 2
    /\ last_deselect_err = "CsPinError"

\* A failed deselect under an operation that returns an error of its own.
C24_WitnessError ==
    /\ csPc = "returned" /\ opRet = "ErrorResponse"
    /\ last_deselect_err = "CsPinError" /\ cs = "low"

\* set_low failed: select returned without a read of the second wait.
C23_WitnessDrive ==
    /\ csPc = "returned" /\ selRes = "CsPinError" /\ selPhase = 1
    /\ lastRead = "low" /\ lowDrives = 1 /\ opRet = "ChipSelectPinError"

(***************************************************************************)
(* send_command.                                                           *)
(***************************************************************************)
\* Bound: parameters in one request of SpecSend.
MaxParams == 2

\* u16::to_be_bytes, u16::to_le_bytes
\* A big-endian encoder with the low byte first.
BeBytes_LowFirst(w) == <<w % 256, (w \div 256) % 256>>

BeBytes(w) == <<(w \div 256) % 256, w % 256>>
LeBytes(w) == <<w % 256, (w \div 256) % 256>>

\* Request parameters (enum SendParam).  `w` is the value of a Byte, Word or
\* LEWord; `bytes` is what the iterator of a Bytes yields.
SendByte(b) == [t |-> "Byte", w |-> b, bytes |-> <<>>]
SendWord(w) == [t |-> "Word", w |-> w, bytes |-> <<>>]
SendLEWord(w) == [t |-> "LEWord", w |-> w, bytes |-> <<>>]
SendBytes(bs) == [t |-> "Bytes", w |-> 0, bytes |-> bs]

\* The length send_command passes to write_len for a parameter.
DeclaredLen(p) ==
    CASE p.t = "Byte" -> 1
      [] p.t = "Word" -> 2
      [] p.t = "LEWord" -> 2
      [] p.t = "Bytes" -> Len(p.bytes)        \* it.len()

\* The bytes send_command passes to write_bytes for a parameter.
PayloadOf(p) ==
    CASE p.t = "Byte" -> <<p.w>>
      [] p.t = "Word" -> BeBytes(p.w)
      [] p.t = "LEWord" -> LeBytes(p.w)
      [] p.t = "Bytes" -> p.bytes

\* write_len: `(len as u16).to_be_bytes()` or `[len as u8]`.
LenPrefix(len, use16) ==
    IF use16 THEN BeBytes(len % 65536) ELSE <<len % 256>>

\* Params::len: `self.params.len() as u8`.
ParamsLen(params) == Len(params) % 256

\* A mask that leaves the byte as it is.
MaskReplyFlag_Keep(c) == c

\* `cmd_byte & !Self::REPLY_FLAG` for a byte.
MaskReplyFlag(c) == IF c >= REPLY_FLAG THEN c - REPLY_FLAG ELSE c

\* The first write of send_command.
Header(cmd, params) == <<CMD_START, MaskReplyFlag(cmd), ParamsLen(params)>>

\* What write_len adds to sent_len.
SentLenAfterParam(n, p, use16) == n + DeclaredLen(p) + (IF use16 THEN 2 ELSE 1)

PadDue_Even(n) == n % 2 # 0

\* `while sent_len % 4 != 0`: a padding byte is still due.
PadDue(n) == n % 4 # 0

\* The commands and parameters SpecSend draws from.
SendCmds == {63, 45, 68, 224}      \* GetSocket, StartClientTcp, SendDataTcp, Start
SendParamSet ==
    {SendByte(0), SendByte(255), SendWord(80), SendLEWord(4660),
     SendBytes(<<>>), SendBytes(<<7>>), SendBytes(<<192, 0, 2, 1>>)}
RECURSIVE SeqsUpTo(_, _)
SeqsUpTo(S, n) ==
    IF n = 0 THEN {<<>>}
    ELSE LET shorter == SeqsUpTo(S, n - 1)
         IN shorter \cup {Append(q, x) : q \in {r \in shorter : Len(r) = n - 1}, x \in S}
\* Bound: the longest payload of a Bytes parameter in SpecSend.
MaxPayload == 256
LongPayload == [i \in 1..MaxPayload |-> i % 256]
SendParamLists == SeqsUpTo(SendParamSet, MaxParams) \cup {<<SendBytes(LongPayload)>>}

\* A bus write of `bytes` that fails: some proper prefix went out.
WritePrefixes(bytes) == {SubSeq(bytes, 1, k) : k \in 0..(Len(bytes) - 1)}

\* send_command returns `r`.
SendReturns(r) ==
    /\ sRet' = r
    /\ sPc' = "done"

\* send_command is called; its first statement is select.  The handshake is
\* SpecCS's; here it yields its result.
SendBegin ==
    /\ sPc = "idle"
    /\ \E c \in SendCmds, ps \in SendParamLists, u \in BOOLEAN :
          /\ sCmd' = c
          /\ sParams' = ps
          /\ s16' = u
    /\ sIdx' = 0
    /\ sent_len' = 0
    /\ bus' = <<>>
    /\ \E r \in {"Ok", "DeviceReadyTimeout", "BusyPinError", "CsPinError"} :
          IF r = "Ok"
          THEN sPc' = "header" /\ sRet' = "none"
          ELSE SendReturns(ErrorFrom(r))
    /\ UNCHANGED notSendVars

\* spi.write(&[Start, cmd & !REPLY_FLAG, params.len()]); sent_len += 3
SendHeader ==
    /\ sPc = "header"
    /\ \/ /\ bus' = bus \o Header(sCmd, sParams)
          /\ sent_len' = sent_len + 3
          /\ sPc' = "params"
          /\ UNCHANGED sRet
       \/ /\ \E w \in WritePrefixes(Header(sCmd, sParams)) : bus' = bus \o w
          /\ SendReturns("SpiError")
          /\ UNCHANGED sent_len
    /\ UNCHANGED <<sCmd, sParams, s16, sIdx>>
    /\ UNCHANGED notSendVars

\* One iteration of `for p in params`: write_len, then write_bytes.
SendParam ==
    /\ sPc = "params"
    /\ sIdx < Len(sParams)
    /\ LET p == sParams[sIdx + 1]
           out == LenPrefix(DeclaredLen(p), s16) \o PayloadOf(p)
       IN /\ sent_len' = SentLenAfterParam(sent_len, p, s16)
          /\ \/ /\ bus' = bus \o out
                /\ sIdx' = sIdx + 1
                /\ UNCHANGED <<sPc, sRet>>
             \/ /\ \E w \in WritePrefixes(out) : bus' = bus \o w
                /\ SendReturns("SpiError")
                /\ UNCHANGED sIdx
    /\ UNCHANGED <<sCmd, sParams, s16>>
    /\ UNCHANGED notSendVars

\* spi.write(&[End]); sent_len += 1
SendEnd ==
    /\ sPc = "params"
    /\ sIdx = Len(sParams)
    /\ \/ /\ bus' = Append(bus, CMD_END)
          /\ sent_len' = sent_len + 1
          /\ sPc' = "pad"
          /\ UNCHANGED sRet
       \/ /\ SendReturns("SpiError")
          /\ UNCHANGED <<bus, sent_len>>
    /\ UNCHANGED <<sCmd, sParams, s16, sIdx>>
    /\ UNCHANGED notSendVars

\* One iteration of the padding loop: spi.write(&[0]); sent_len += 1
SendPad ==
    /\ sPc = "pad"
    /\ PadDue(sent_len)
    /\ \/ /\ bus' = Append(bus, 0)
          /\ sent_len' = sent_len + 1
          /\ UNCHANGED <<sPc, sRet>>
       \/ /\ SendReturns("SpiError")
          /\ UNCHANGED <<bus, sent_len>>
    /\ UNCHANGED <<sCmd, sParams, s16, sIdx>>
    /\ UNCHANGED notSendVars

\* The padding loop ends: Ok(()).
SendOk ==
    /\ sPc = "pad"
    /\ ~PadDue(sent_len)
    /\ SendReturns("Ok")
    /\ UNCHANGED <<sCmd, sParams, s16, sIdx, sent_len, bus>>
    /\ UNCHANGED notSendVars

\* The caller has taken the result; the call's locals are gone.
SendForget ==
    /\ sPc = "done"
    /\ sPc' = "idle"
    /\ sCmd' = 0
    /\ sParams' = <<>>
    /\ s16' = FALSE
    /\ sIdx' = 0
    /\ sent_len' = 0
    /\ bus' = <<>>
    /\ sRet' = "none"
    /\ UNCHANGED notSendVars

SendInit ==
    /\ sPc = "idle"
    /\ sCmd = 0
    /\ sParams = <<>>
    /\ s16 = FALSE
    /\ sIdx = 0
    /\ sent_len = 0
    /\ bus = <<>>
    /\ sRet = "none"

(***************************************************************************)
(* send_command and receive_response as functions of what the pins, the    *)
(* bus and the co-processor present: the form the socket operations use.   *)
(***************************************************************************)

\* Results: Ok or an Error with its fields (`a`, `b`: numbers; `s`: a status).
Res(kind, a, b) == [kind |-> kind, a |-> a, b |-> b, s |-> "-"]
Ok == Res("Ok", 0, 0)
IsOk(r) == r.kind = "Ok"

\* The padding send_command writes once sent_len is n.
RECURSIVE Padding(_)
Padding(n) == IF PadDue(n) THEN <<0>> \o Padding(n + 1) ELSE <<>>

\* The bytes of the parameter loop, and sent_len after it.
RECURSIVE ParamBytes(_, _, _)
ParamBytes(params, use16, i) ==
    IF i > Len(params) THEN <<>>
    ELSE LenPrefix(DeclaredLen(params[i]), use16) \o PayloadOf(params[i])
         \o ParamBytes(params, use16, i + 1)
RECURSIVE SentLenAfter(_, _, _, _)
SentLenAfter(n, params, use16, i) ==
    IF i > Len(params) THEN n
    ELSE SentLenAfter(SentLenAfterParam(n, params[i], use16), params, use16, i + 1)

\* Everything a complete send_command writes.
RequestFrame(cmd, params, use16) ==
    Header(cmd, params) \o ParamBytes(params, use16, 1) \o <<CMD_END>>
    \o Padding(SentLenAfter(3, params, use16, 1) + 1)

\* send_command, given the result of its select (`sel`) and whether every bus
\* write succeeds (`busOk`): its result, and the frame if it was written whole.
SendCommand(cmd, params, use16, sel, busOk) ==
    IF sel # "Ok" THEN [err |-> Res(ErrorFrom(sel), 0, 0), frame |-> <<>>]
    ELSE IF ~busOk THEN [err |-> Res("SpiError", 0, 0), frame |-> <<>>]
    ELSE [err |-> Ok, frame |-> RequestFrame(cmd, params, use16)]

\* What the co-processor puts on the bus while a reply is read: `lead` idle
\* bytes, then `body`, then idle bytes again; the transfer number `errAt`
\* fails (0: none does).
Wire(lead, idle, body, errAt) ==
    [lead |-> lead, idle |-> idle, body |-> body, errAt |-> errAt]
ByteAt(wire, i) ==
    IF i <= wire.lead THEN wire.idle
    ELSE IF i - wire.lead <= Len(wire.body) THEN wire.body[i - wire.lead]
    ELSE wire.idle

\* spi.transfer_byte() as transfer number pos + 1: the byte, or -1 for Err.
TransferByte(wire, pos) ==
    IF wire.errAt = pos + 1 THEN -1 ELSE ByteAt(wire, pos + 1)

RESPONSE_START_BUDGET == 100     \* wait_for_response_start: for attempt in 0..100

\* An outcome that takes the error marker for the start marker.
StartOutcome_SentinelStarts(byte) ==
    IF byte = -1 THEN Res("SpiError", 0, 0) ELSE Ok

\* How a transfer that is an error, the start marker or the error marker ends
\* wait_for_response_start.
StartOutcome(byte) ==
    IF byte = -1 THEN Res("SpiError", 0, 0)
    ELSE IF byte = CMD_START THEN Ok
    ELSE Res("ErrorResponse", 0, 0)

\* A wait that reads one byte more.
WaitForResponseStart_OneMore(wire, att) ==
    LET ends == {a \in att..RESPONSE_START_BUDGET :
                    TransferByte(wire, a) \in {-1, CMD_START, CMD_ERROR}}
    IN IF ends = {}
       THEN [err |-> Res("ResponseTimeout", 0, 0), pos |-> RESPONSE_START_BUDGET + 1,
             delays |-> RESPONSE_START_BUDGET + 1 - att]
       ELSE LET a == CHOOSE e \in ends : \A o \in ends : e <= o
                byte == TransferByte(wire, a)
            IN [err |-> StartOutcome(byte), pos |-> a + 1, delays |-> a - att]

\* wait_for_response_start from loop index `att`: the loop runs until the
\* first transfer that fails or reads the start or the error marker; the
\* result, the bytes read and the delay_ms(1) calls made.
WaitForResponseStart(wire, att) ==
    LET ends == {a \in att..(RESPONSE_START_BUDGET - 1) :
                    TransferByte(wire, a) \in {-1, CMD_START, CMD_ERROR}}
    IN IF ends = {}
       THEN [err |-> Res("ResponseTimeout", 0, 0), pos |-> RESPONSE_START_BUDGET,
             delays |-> RESPONSE_START_BUDGET - att]
       ELSE LET a == CHOOSE e \in ends : \A o \in ends : e <= o
                byte == TransferByte(wire, a)
            IN [err |-> StartOutcome(byte), pos |-> a + 1, delays |-> a - att]

\* `Self::REPLY_FLAG | cmd_byte` for a byte.
WithReplyFlag(c) == IF c >= REPLY_FLAG THEN c ELSE c + REPLY_FLAG

\* An expect_byte that reports the actual byte first.
ExpectByte_ActualFirst(wire, pos, target) ==
    IF TransferByte(wire, pos) = -1 THEN Res("SpiError", 0, 0)
    ELSE IF TransferByte(wire, pos) = target THEN Ok
    ELSE Res("UnexpectedResponse", TransferByte(wire, pos), target)

\* expect_byte(spi, target) reading transfer pos + 1.
ExpectByte(wire, pos, target) ==
    LET v == TransferByte(wire, pos)
    IN IF v = -1 THEN Res("SpiError", 0, 0)
       ELSE IF v = target THEN Ok
       ELSE Res("UnexpectedResponse", target, v)

\* A little-endian decoder with the bytes in the other order.
FromLe_Swapped(b0, b1) == 256 * b0 + b1

\* u16::from_be_bytes, u16::from_le_bytes
FromBe(b0, b1) == 256 * b0 + b1
FromLe(b0, b1) == b0 + 256 * b1

\* The read_len closure: reads the length prefix from transfer pos + 1 on and
\* compares it with `expect` (-1: None).
ReadLen(wire, pos, use16, expect) ==
    LET b0 == TransferByte(wire, pos)
        b1 == TransferByte(wire, pos + 1)
    IN IF b0 = -1 THEN [err |-> Res("SpiError", 0, 0), len |-> 0, pos |-> pos + 1]
       ELSE IF use16 /\ b1 = -1
       THEN [err |-> Res("SpiError", 0, 0), len |-> 0, pos |-> pos + 2]
       ELSE LET len == IF use16 THEN FromBe(b0, b1) ELSE b0
                np == IF use16 THEN pos + 2 ELSE pos + 1
            IN IF expect # -1 /\ len # expect
               THEN [err |-> Res("MismatchedParamSize", expect, len), len |-> len, pos |-> np]
               ELSE [err |-> Ok, len |-> len, pos |-> np]

\* Reply slots (enum RecvParam).  `n`: the byte of an ExpectByte, the length
\* of a ByteArray's slice, the length of a Buffer's slice.
Slot(t, n) == [t |-> t, n |-> n]

\* The destination of a slot: whether it was written, the number stored
\* (a byte, a word, a Buffer's len) and the bytes stored in a slice.
Dest(set, w, bytes) == [set |-> set, w |-> w, bytes |-> bytes]
Untouched == Dest(FALSE, 0, <<>>)

\* Slots that expect no length.
ExpectedLen_None(slot) == -1

\* The length a fixed-size slot expects (-1: Buffer expects none).
ExpectedLen(slot) ==
    CASE slot.t \in {"Ack", "ExpectByte", "Byte", "OptionalByte", "Socket"} -> 1
      [] slot.t \in {"Word", "LEWord"} -> 2
      [] slot.t = "ByteArray" -> slot.n
      [] slot.t = "Buffer" -> -1

\* `for i in 0..len { arr[i] = spi.transfer_byte()? }` into a slice of `cap`
\* bytes, from index i.  In each iteration the byte is read, then the index is
\* checked; the loop stops at the first index whose transfer fails or that is
\* outside the slice.
FillSlice(wire, pos, len, cap, i, acc) ==
    LET stops == {j \in i..(len - 1) : TransferByte(wire, pos + j - i) = -1 \/ j >= cap}
        last == IF stops = {} THEN len ELSE CHOOSE j \in stops : \A o \in stops : j <= o
        got == acc \o [k \in 1..(last - i) |-> TransferByte(wire, pos + k - 1)]
    IN IF i >= len THEN [err |-> Ok, pos |-> pos, bytes |-> acc]
       ELSE IF stops = {} THEN [err |-> Ok, pos |-> pos + len - i, bytes |-> got]
       ELSE [err |-> IF TransferByte(wire, pos + last - i) = -1 THEN Res("SpiError", 0, 0)
                     ELSE Res("Panic", last, cap),
             pos |-> pos + last - i + 1, bytes |-> got]

\* One arm of the `match param_handler` of receive_response, given what
\* read_len returned (`rl`): the result, the position and the slot's destination.
DecodeParam(wire, slot, rl) ==
    IF ~IsOk(rl.err) THEN [err |-> rl.err, pos |-> rl.pos, dest |-> Untouched]
    ELSE CASE slot.t \in {"Ack", "ExpectByte"} ->
              [err |-> ExpectByte(wire, rl.pos, IF slot.t = "Ack" THEN RESPONSE_ACK ELSE slot.n),
               pos |-> rl.pos + 1, dest |-> Untouched]
           [] slot.t \in {"Byte", "OptionalByte", "Socket"} ->
              IF TransferByte(wire, rl.pos) = -1
              THEN [err |-> Res("SpiError", 0, 0), pos |-> rl.pos + 1, dest |-> Untouched]
              ELSE [err |-> Ok, pos |-> rl.pos + 1,
                    dest |-> Dest(TRUE, TransferByte(wire, rl.pos), <<>>)]
           [] slot.t \in {"Word", "LEWord"} ->
              IF TransferByte(wire, rl.pos) = -1
              THEN [err |-> Res("SpiError", 0, 0), pos |-> rl.pos + 1, dest |-> Untouched]
              ELSE IF TransferByte(wire, rl.pos + 1) = -1
              THEN [err |-> Res("SpiError", 0, 0), pos |-> rl.pos + 2, dest |-> Untouched]
              ELSE [err |-> Ok, pos |-> rl.pos + 2,
                    dest |-> Dest(TRUE,
                                  IF slot.t = "Word"
                                  THEN FromBe(TransferByte(wire, rl.pos),
                                              TransferByte(wire, rl.pos + 1))
                                  ELSE FromLe(TransferByte(wire, rl.pos),
                                              TransferByte(wire, rl.pos + 1)), <<>>)]
           [] slot.t = "ByteArray" ->
              LET f == FillSlice(wire, rl.pos, slot.n, slot.n, 0, <<>>)
              IN [err |-> f.err, pos |-> f.pos, dest |-> Dest(f.bytes # <<>>, 0, f.bytes)]
           [] slot.t = "Buffer" ->
              LET f == FillSlice(wire, rl.pos, rl.len, slot.n, 0, <<>>)
              IN [err |-> f.err, pos |-> f.pos, dest |-> Dest(TRUE, rl.len, f.bytes)]

\* The length prefix of a slot, then its arm.
DecodeSlot(wire, slot, use16, pos0) ==
    DecodeParam(wire, slot, ReadLen(wire, pos0, use16, ExpectedLen(slot)))

\* A check that finds no parameter left over.
Surplus_Never(param_count, param_idx) == FALSE

\* `if param_count > param_idx` after the loop of receive_response.
Surplus(param_count, param_idx) == param_count > param_idx

\* No slot is passed over.
PassedOver_Never(slot) == FALSE

\* `RecvParam::OptionalByte(_) => continue` when param_idx == param_count.
PassedOver(slot) == slot.t = "OptionalByte"

\* The `for param_handler in params` loop of receive_response from slot i on,
\* and the check that follows it; AfterSlot is the loop body once slot i has
\* been decoded as `d`.
RECURSIVE RecvSlots(_, _, _, _, _, _, _, _)
AfterSlot(wire, slots, use16, i, param_idx, param_count, dests, d) ==
    IF ~IsOk(d.err)
    THEN [err |-> d.err, pos |-> d.pos, dests |-> [dests EXCEPT ![i] = d.dest]]
    ELSE RecvSlots(wire, slots, use16, i + 1, d.pos, param_idx + 1, param_count,
                   [dests EXCEPT ![i] = d.dest])
RecvSlots(wire, slots, use16, i, pos, param_idx, param_count, dests) ==
    IF i > Len(slots)
    THEN [err |-> IF Surplus(param_count, param_idx) THEN Res("UnexpectedParam", param_idx, 0)
                  ELSE Ok,
          pos |-> pos, dests |-> dests]
    ELSE IF param_idx = param_count
    THEN IF PassedOver(slots[i])
         THEN RecvSlots(wire, slots, use16, i + 1, pos, param_idx, param_count, dests)
         ELSE [err |-> Res("MissingParam", param_idx, 0), pos |-> pos, dests |-> dests]
    ELSE AfterSlot(wire, slots, use16, i, param_idx, param_count, dests,
                   DecodeSlot(wire, slots[i], use16, pos))

\* A call that fails before any slot is written, after `pos` bytes were read.
Failed(e, pos, slots) ==
    [err |-> e, pos |-> pos, dests |-> [i \in 1..Len(slots) |-> Untouched]]

\* receive_response once wait_for_response_start has returned `w`.
AfterStart(cmd, slots, use16, wire, w) ==
    IF ~IsOk(w.err) THEN Failed(w.err, w.pos, slots)
    ELSE IF ~IsOk(ExpectByte(wire, w.pos, WithReplyFlag(cmd)))
    THEN Failed(ExpectByte(wire, w.pos, WithReplyFlag(cmd)), w.pos + 1, slots)
    ELSE IF TransferByte(wire, w.pos + 1) = -1
    THEN Failed(Res("SpiError", 0, 0), w.pos + 2, slots)
    ELSE RecvSlots(wire, slots, use16, 1, w.pos + 2, 0, TransferByte(wire, w.pos + 1),
                   [i \in 1..Len(slots) |-> Untouched])

\* receive_response, given the result of its select and the wire: its result,
\* the bytes read (`pos`) and the destinations of its slots.
ReceiveResponse(cmd, slots, use16, sel, wire) ==
    IF sel # "Ok" THEN Failed(Res(ErrorFrom(sel), 0, 0), 0, slots)
    ELSE AfterStart(cmd, slots, use16, wire, WaitForResponseStart(wire, 0))

\* What one exchange meets: the results of the two selects, whether the bus
\* writes of the request succeed, and the wire during the reply.
Env(sel1, busOk, sel2, wire) ==
    [sel1 |-> sel1, busOk |-> busOk, sel2 |-> sel2, wire |-> wire]

\* The result of an exchange: of the call that ended it (`r`), with the frame
\* that send_command wrote.
Exchange(r, frame) ==
    [err |-> r.err, dests |-> r.dests, reads |-> r.pos, frame |-> frame]

\* A send_and_receive that reads the reply whatever send_command returned.
SendAndReceive_ReadsAnyway(cmd, sparams, s16b, slots, r16b, env) ==
    Exchange(ReceiveResponse(cmd, slots, r16b, env.sel2, env.wire),
             IF IsOk(SendCommand(cmd, sparams, s16b, env.sel1, env.busOk).err)
             THEN RequestFrame(cmd, sparams, s16b) ELSE <<>>)

\* send_and_receive: send_command(..)?; receive_response(..)
SendAndReceive(cmd, sparams, s16b, slots, r16b, env) ==
    IF ~IsOk(SendCommand(cmd, sparams, s16b, env.sel1, env.busOk).err)
    THEN Exchange(Failed(SendCommand(cmd, sparams, s16b, env.sel1, env.busOk).err, 0, slots),
                  <<>>)
    ELSE Exchange(ReceiveResponse(cmd, slots, r16b, env.sel2, env.wire),
                  RequestFrame(cmd, sparams, s16b))

(***************************************************************************)
(* Claims about send_command (checked under SpecSend).                     *)
(***************************************************************************)

\* The bytes of a complete request up to and including the end marker, counted
\* from what was put on the bus for each parameter.
FrameLen(params, use16) ==
    LET RECURSIVE Sum(_)
        Sum(i) == IF i = 0 THEN 0
                  ELSE Sum(i - 1) + (IF use16 THEN 2 ELSE 1) + Len(PayloadOf(params[i]))
    IN 3 + Sum(Len(params)) + 1

\* C10: for any request that send_command completes successfully, the bytes
\* written on the bus from the start marker through the padding number a
\* multiple of 4, and the padding is at most 3 zero bytes after the end marker.
C10_RequestPadded ==
    (sPc = "done" /\ sRet = "Ok") =>
        LET e == FrameLen(sParams, s16)
        IN /\ Len(bus) % 4 = 0
           /\ bus[1] = 224
           /\ e <= Len(bus)
           /\ bus[e] = 238
           /\ Len(bus) - e <= 3
           /\ \A i \in (e + 1)..Len(bus) : bus[i] = 0

\* A request that needed three padding bytes was completed.
C10_Witness ==
    /\ sPc = "done" /\ sRet = "Ok"
    /\ Len(sParams) = 2
    /\ Len(bus) - FrameLen(sParams, s16) = 3

\* The position on the bus of the first byte of parameter i of a request.
ParamStart(i) == FrameLen(SubSeq(sParams, 1, i - 1), s16)
PrefixWidth == IF s16 THEN 2 ELSE 1

\* C22: a request begins with 0xE0, the opcode with bit 7 cleared, and a
\* byte holding the number of parameters (a number that fits in a byte);
\* when send_command succeeds the parameters follow in list order, each as
\* its length prefix and its payload, and 0xEE follows the last of them.
C22_RequestHeader ==
    /\ (sPc \notin {"idle", "header"} /\ Len(bus) >= 3) =>
          /\ bus[1] = 224
          /\ bus[2] = sCmd % 128 /\ bus[2] < 128
          /\ bus[3] = Len(sParams)
    /\ (sPc = "done" /\ sRet = "Ok") =>
          /\ Len(bus) >= 4
          /\ \A i \in 1..Len(sParams) :
                SubSeq(bus, ParamStart(i) + PrefixWidth,
                       ParamStart(i) + PrefixWidth + Len(PayloadOf(sParams[i])) - 1)
                  = PayloadOf(sParams[i])
          /\ bus[ParamStart(Len(sParams) + 1)] = 238

\* A request for an opcode with bit 7 set and two parameters went out whole.
C22_Witness ==
    /\ sPc = "done" /\ sRet = "Ok" /\ sCmd = 224
    /\ sParams = <<SendByte(255), SendBytes(<<192, 0, 2, 1>>)>> /\ ~s16
    /\ bus = <<224, 96, 2, 1, 255, 4, 192, 0, 2, 1, 238, 0>>

\* C29 as stated: for every parameter that send_command has written whole,
\* the length prefix on the bus, read in the call's prefix width, is the
\* number of payload bytes written for it.
C29_PrefixMatchesPayload ==
    \A i \in 1..sIdx :
        (IF s16 THEN FromBe(bus[ParamStart(i)], bus[ParamStart(i) + 1])
         ELSE bus[ParamStart(i)]) = Len(PayloadOf(sParams[i]))

(***************************************************************************)
(* The socket operations (commands/socket.rs) and wifi_status.             *)
(***************************************************************************)
SetNetwork == 16            \* 0x10
SetNetworkAndPassphrase == 17   \* 0x11
GetConnectionStatus == 32   \* 0x20
StartServerTcp == 40        \* 0x28
AvailableDataTcp == 43      \* 0x2B
StartClientTcp == 45        \* 0x2D
StopClientTcp == 46         \* 0x2E
GetClientStateTcp == 47     \* 0x2F
GetSocket == 63             \* 0x3F
SendDataTcp == 68           \* 0x44
GetDatabufTcp == 69         \* 0x45
SockCmds == {SetNetwork, SetNetworkAndPassphrase, GetConnectionStatus, StartServerTcp,
             AvailableDataTcp, StartClientTcp, StopClientTcp, GetClientStateTcp, GetSocket,
             SendDataTcp, GetDatabufTcp}

OPEN_POLL_BUDGET == 300     \* socket_open: for _ in 0..300
OPEN_POLL_DELAY_MS == 10    \* socket_open: self.delay.delay_ms(10)
WIFI_POLL_BUDGET == 5       \* wifi_connect: for _ in 0..5
WIFI_POLL_DELAY_MS == 1000  \* wifi_connect: self.delay.delay_ms(1000)
PROTOCOL_TCP == 0           \* Protocol::TCP
U16_RANGE == 65536          \* values of a u16: `as u16` keeps the value modulo this
U8_RANGE == 256             \* values of a u8: `as u8` keeps the value modulo this

\* A conversion that knows Closed only.
SocketStatusFrom_ClosedOnly(b) == IF b = 0 THEN "Closed" ELSE "UnknownStatus"

\* impl From<u8> for SocketStatus
SocketStatusFrom(b) ==
    CASE b = 0 -> "Closed"
      [] b = 1 -> "Listen"
      [] b = 2 -> "SynSent"
      [] b = 3 -> "SynReceived"
      [] b = 4 -> "Established"
      [] b = 5 -> "FinWait1"
      [] b = 6 -> "FinWait2"
      [] b = 7 -> "CloseWait"
      [] b = 8 -> "Closing"
      [] b = 9 -> "LastAck"
      [] b = 10 -> "TimeWait"
      [] OTHER -> "UnknownStatus"

\* impl From<u8> for WifiStatus
WifiStatusFrom(b) ==
    CASE b = 0 -> "Idle"
      [] b = 1 -> "NoSsidAvailable"
      [] b = 2 -> "ScanCompleted"
      [] b = 3 -> "Connected"
      [] b = 4 -> "ConnectFailed"
      [] b = 5 -> "ConnectionLost"
      [] b = 6 -> "Disconnected"
      [] b = 7 -> "ApListening"
      [] b = 8 -> "ApConnected"
      [] b = 9 -> "ApFailed"
      [] OTHER -> "UnknownStatus"

\* A validity check that accepts every number.
Valid_Always(num) == TRUE

\* InvalidSocket::valid
Valid(num) == num # INVALID

\* core::cmp::min
Min(a, b) == IF a < b THEN a ELSE b

\* Results that carry a status.
OkStatus(st) == [kind |-> "Ok", a |-> 0, b |-> 0, s |-> st]
ConnectionFailed(st) == [kind |-> "SocketConnectionFailed", a |-> 0, b |-> 0, s |-> st]
\* Error::ConnectionFailed(WifiStatus)
WifiConnectionFailed(st) == [kind |-> "ConnectionFailed", a |-> 0, b |-> 0, s |-> st]
\* Ok(n): a Socket or ConnectedSocket with number n, or a byte count n.
OkNum(n) == Res("Ok", n, 0)

\* A test that takes a result byte of 0 for no result.
ResultAbsent_OrZero(dest) == ~dest.set \/ dest.w = 0

\* socket_open: `if let None = result`.
ResultAbsent(dest) == ~dest.set

\* socket_open: `if last_status == SocketStatus::Established`.
\* A test that takes SynSent for a connection.
IsEstablished_SynSent(st) == st \in {"SynSent", "Established"}

IsEstablished(st) == st = "Established"

\* A polling loop of one more iteration.
OpenLoopHasNext_OneMore(i) == i <= OPEN_POLL_BUDGET

\* socket_open: the polling loop has an iteration left.
OpenLoopHasNext(i) == i < OPEN_POLL_BUDGET

\* A wifi_connect that polls without a budget.
WifiLoopHasNext_Always(i) == TRUE

\* wifi_connect: the polling loop has an iteration left.
WifiLoopHasNext(i) == i < WIFI_POLL_BUDGET

\* A socket_read for which nothing available always is the end of the stream.
ReadNothing_AlwaysEof(st) == OkNum(0)

\* socket_read: `match self.socket_status(socket)?` when nothing is available.
ReadNothing(st) ==
    IF st = "Closed" THEN OkNum(0) ELSE Res("WouldBlock", 0, 0)

\* A socket_read that requests all that is available.
ReqSize_Available(avail, cap) == avail

\* socket_read: `core::cmp::min(available, buf.len() as u16)`.
ReqSize(avail, cap) == Min(avail, cap % U16_RANGE)

\* A drop that hands on what socket_close returned.
DropResult_Propagated(closeErr) == closeErr

\* Drop for ConnectedSocket: `self.wifi.socket_close(&self.socket).ok();`
DropResult(closeErr) == Res("Unit", 0, 0)

\* socket_new: `socket.try_into().map_err(|_| NoSocketAvailable)`, and the same
\* conversion of `client_socket as u8` in select_available.
TryIntoSocket(num) ==
    IF Valid(num) THEN OkNum(num) ELSE Res("NoSocketAvailable", 0, 0)

(***************************************************************************)
(* The environment of the socket operations: what the co-processor         *)
(* replies, and the failures of the pins and the bus.                      *)
(***************************************************************************)
\* A reply as the co-processor frames it: one length-prefixed field per
\* parameter, between the markers.
RECURSIVE ReplyFields(_, _, _)
ReplyFields(fields, use16, i) ==
    IF i > Len(fields) THEN <<>>
    ELSE LenPrefix(Len(fields[i]), use16) \o fields[i] \o ReplyFields(fields, use16, i + 1)
ReplyBody(cmd, use16, fields) ==
    <<CMD_START, WithReplyFlag(cmd), Len(fields)>> \o ReplyFields(fields, use16, 1)
    \o <<CMD_END>>
IdleByte == 255
Answer(cmd, use16, fields) == Wire(0, IdleByte, ReplyBody(cmd, use16, fields), 0)

\* Replies that no command expects: the error sentinel, silence, another
\* command's reply, and a bus error at the first byte.
BadWires ==
    {Wire(0, IdleByte, <<CMD_ERROR>>, 0), Wire(0, IdleByte, <<>>, 0),
     Wire(0, IdleByte, <<CMD_START, 0>>, 0), Wire(0, IdleByte, <<>>, 1)}

SelectFailures == {"DeviceReadyTimeout", "BusyPinError"}

\* All an exchange can meet when the co-processor may answer with `wires`.
Envs(wires) ==
    {Env(f, TRUE, "Ok", Wire(0, IdleByte, <<>>, 0)) : f \in SelectFailures}
    \cup {Env("Ok", FALSE, "Ok", Wire(0, IdleByte, <<>>, 0))}
    \cup {Env("Ok", TRUE, f, Wire(0, IdleByte, <<>>, 0)) : f \in SelectFailures}
    \cup {Env("Ok", TRUE, "Ok", w) : w \in wires \cup BadWires}

Bytes == 0..255
\* Handles the co-processor returns for GetSocket.
Handles == {0, 1, 255}
\* Status bytes it returns while socket_open polls, and to socket_read.
PollBytes == {2, 4, 200}
ReadStatusBytes == {0, 1, 4, 10, 11, 200, 255}
\* Status bytes it returns while wifi_connect polls.
WifiPollBytes == {0, 3, 6}
\* Two-byte fields it returns for AvailableDataTcp and SendDataTcp.
WordFields == {<<0, 0>>, <<1, 0>>, <<2, 0>>, <<0, 1>>, <<255, 0>>, <<255, 1>>, <<18, 0>>}
\* Data it returns for GetDatabufTcp; MaxData bounds the length.
MaxData == 3
DataFields == {SubSeq(<<9, 8, 7, 6, 5, 4, 3, 2>>, 1, n) : n \in 0..MaxData}

ByteAnswers(cmd, bs) ==
    {Answer(cmd, FALSE, <<<<b>>>>) : b \in bs}
    \cup {Answer(cmd, FALSE, <<>>), Answer(cmd, FALSE, << <<1, 2>> >>),
          Answer(cmd, FALSE, << <<1>>, <<2>> >>)}
WordAnswers(cmd) ==
    {Answer(cmd, FALSE, <<f>>) : f \in WordFields}
    \cup {Answer(cmd, FALSE, <<>>), Answer(cmd, FALSE, << <<1>> >>)}
\* Data replies use 2-byte length prefixes; the last one declares 256 bytes.
DataAnswers ==
    {Answer(GetDatabufTcp, TRUE, <<f>>) : f \in DataFields}
    \cup {Wire(0, IdleByte, <<CMD_START, WithReplyFlag(GetDatabufTcp), 1, 1, 0, 9, 8, CMD_END>>, 0),
          Wire(0, IdleByte, ReplyBody(GetDatabufTcp, TRUE, << <<9, 8>> >>), 7)}

\* Inputs of the callers.
SockNums == {0, 1}
Dests == {"Ip", "Hostname"}
Caps == {0, 1, 3, 65538}
\* b"GET / HTTP/1.0\r\n\r\n"
GetRequest == <<71, 69, 84, 32, 47, 32, 72, 84, 84, 80, 47, 49, 46, 48, 13, 10, 13, 10>>
WriteData == {<<>>, <<71, 69, 84>>, GetRequest}
IpAddr == <<192, 0, 2, 1>>
HostName == <<97, 46, 98>>
Port == 80
\* wifi_connect: the ssid, and the password options None and Some(password).
Ssid == <<110, 101, 116>>
Password == <<112, 119>>
PasswordOptions == {"None", "Some"}

(***************************************************************************)
(* The exchanges of the socket operations.                                 *)
(***************************************************************************)
\* socket_new
XGetSocket(env) ==
    SendAndReceive(GetSocket, <<>>, FALSE, <<Slot("Socket", 0)>>, FALSE, env)
\* socket_status
XSocketStatus(sock, env) ==
    SendAndReceive(GetClientStateTcp, <<SendByte(sock)>>, FALSE,
                   <<Slot("Byte", 0)>>, FALSE, env)
\* wifi_status
XWifiStatus(env) ==
    SendAndReceive(GetConnectionStatus, <<>>, FALSE, <<Slot("Byte", 0)>>, FALSE, env)
\* wifi_connect
XSetNetwork(password, env) ==
    IF password = "None"
    THEN SendAndReceive(SetNetwork, <<SendBytes(Ssid)>>, FALSE, <<Slot("Ack", 0)>>, FALSE, env)
    ELSE SendAndReceive(SetNetworkAndPassphrase, <<SendBytes(Ssid), SendBytes(Password)>>,
                        FALSE, <<Slot("Ack", 0)>>, FALSE, env)
\* socket_open
XStartClient(sock, dest, env) ==
    SendAndReceive(StartClientTcp,
        IF dest = "Ip"
        THEN <<SendBytes(IpAddr), SendWord(Port), SendByte(sock), SendByte(PROTOCOL_TCP)>>
        ELSE <<SendBytes(HostName), SendBytes(<<0, 0, 0, 0>>), SendWord(Port),
               SendByte(sock), SendByte(PROTOCOL_TCP)>>,
        FALSE, <<Slot("OptionalByte", 0)>>, FALSE, env)
\* socket_close
XStopClient(sock, env) ==
    SendAndReceive(StopClientTcp, <<SendByte(sock)>>, FALSE, <<Slot("Ack", 0)>>, FALSE, env)
\* server
XStartServer(sock, env) ==
    SendAndReceive(StartServerTcp,
        <<SendWord(Port), SendByte(sock), SendByte(PROTOCOL_TCP)>>,
        FALSE, <<Slot("OptionalByte", 0)>>, FALSE, env)
\* select_available and socket_read
XAvailableData(sock, env) ==
    SendAndReceive(AvailableDataTcp, <<SendByte(sock)>>, FALSE,
                   <<Slot("LEWord", 0)>>, FALSE, env)
\* socket_write
XSendData(sock, data, env) ==
    SendAndReceive(SendDataTcp, <<SendByte(sock), SendBytes(data)>>, TRUE,
                   <<Slot("LEWord", 0)>>, FALSE, env)
\* socket_read
XGetDatabuf(sock, req, cap, env) ==
    SendAndReceive(GetDatabufTcp, <<SendByte(sock), SendLEWord(req)>>, TRUE,
                   <<Slot("Buffer", cap)>>, TRUE, env)

\* The bookkeeping of one send_and_receive call for `cmd`.
Exchanged(cmd, x, env) ==
    /\ xchg' = [xchg EXCEPT ![cmd] = @ + 1]
    /\ lastFrame' = x.frame
    /\ lastBody' = IF x.frame # <<>> /\ env.sel2 = "Ok" THEN env.wire.body ELSE <<>>
    /\ lastErr' = x.err

\* The operation returns `r` to its caller.
Returns(r) ==
    /\ kRet' = r
    /\ kPc' = IF r.kind = "Panic" THEN "panicked" ELSE "returned"

NoRet == Res("none", 0, 0)

(***************************************************************************)
(* The socket operations as steps: one step per send_and_receive.          *)
(***************************************************************************)
\* Operations a caller can invoke on the driver while no ConnectedSocket
\* borrows it, and the position each starts at.
DirectOps == {"socket_new", "socket_status", "wifi_status", "socket_open", "socket_close",
              "connect", "server", "select_available", "socket_write", "socket_read",
              "wifi_connect"}
\* ConnectedSocket::read and ConnectedSocket::write.
ViaOps == {"socket_read", "socket_write"}
FirstPc(op) ==
    CASE op \in {"socket_new", "connect", "server"} -> "new"
      [] op = "socket_status" -> "status"
      [] op = "wifi_status" -> "wstatus"
      [] op = "socket_open" -> "openStart"
      [] op = "socket_close" -> "close"
      [] op = "select_available" -> "accept"
      [] op = "socket_write" -> "write"
      [] op = "socket_read" -> "readAvail"
      [] op = "wifi_connect" -> "wifiSet"

NoConn == -1
KeepConn == UNCHANGED <<conn, closes, closeArg, closeFrames, closeRes>>
\* ConnectedSocket::new(self, socket)
NewConn(num) ==
    /\ conn' = num
    /\ closes' = 0
    /\ closeArg' = NoConn
    /\ closeFrames' = 0
    /\ closeRes' = NoRet

\* The caller invokes an operation on the driver.
CallDirect ==
    /\ kPc = "idle" /\ conn = NoConn
    /\ \E op \in DirectOps, sock \in SockNums, dest \in Dests, cap \in Caps, data \in WriteData,
          password \in PasswordOptions :
        /\ kOp' = op
        /\ kPc' = FirstPc(op)
        /\ kSock' = IF op \in {"socket_new", "connect", "server", "wifi_status", "wifi_connect"}
                    THEN NoConn ELSE sock
        /\ kDest' = IF op \in {"socket_open", "connect"} THEN dest
                    ELSE IF op = "wifi_connect" THEN password ELSE "-"
        /\ kCap' = IF op = "socket_read" THEN cap ELSE 0
        /\ kData' = IF op = "socket_write" THEN data ELSE <<>>
    /\ kVia' = FALSE
    /\ UNCHANGED <<kRet, gotHandle, oIter, polls, openDelayMs, last_status, available,
                   xchg, lastFrame, lastBody,
                   lastErr>>
    /\ KeepConn
    /\ UNCHANGED notSockVars

\* The caller reads or writes through the live ConnectedSocket.
CallVia ==
    /\ kPc = "idle" /\ conn # NoConn
    /\ \E op \in ViaOps, cap \in Caps, data \in WriteData :
        /\ kOp' = op
        /\ kPc' = FirstPc(op)
        /\ kCap' = IF op = "socket_read" THEN cap ELSE 0
        /\ kData' = IF op = "socket_write" THEN data ELSE <<>>
    /\ kSock' = conn
    /\ kVia' = TRUE
    /\ UNCHANGED <<kDest, kRet, gotHandle, oIter, polls, openDelayMs, last_status,
                   available, xchg, lastFrame, lastBody,
                   lastErr>>
    /\ KeepConn
    /\ UNCHANGED notSockVars

\* socket_new, alone or as the first call of connect and of server.
StepNew ==
    /\ kPc = "new"
    /\ \E env \in Envs(ByteAnswers(GetSocket, Handles)) :
        LET x == XGetSocket(env)
            r == TryIntoSocket(x.dests[1].w)
        IN /\ Exchanged(GetSocket, x, env)
           /\ IF ~IsOk(x.err)
              THEN Returns(x.err) /\ UNCHANGED <<gotHandle, kSock>>
              ELSE /\ gotHandle' = x.dests[1].w
                   /\ IF ~IsOk(r) THEN Returns(r) /\ UNCHANGED kSock
                      ELSE IF kOp = "socket_new" THEN Returns(r) /\ UNCHANGED kSock
                      ELSE /\ kSock' = r.a
                           /\ kPc' = IF kOp = "connect" THEN "openStart" ELSE "serverStart"
                           /\ UNCHANGED kRet
    /\ UNCHANGED <<kOp, kVia, kDest, kCap, kData, oIter, polls, openDelayMs, last_status,
                   available>>
    /\ KeepConn
    /\ UNCHANGED notSockVars

\* server, after its socket_new.
StepServerStart ==
    /\ kPc = "serverStart"
    /\ \E env \in Envs(ByteAnswers(StartServerTcp, {0, 1})) :
        LET x == XStartServer(kSock, env)
        IN /\ Exchanged(StartServerTcp, x, env)
           /\ Returns(IF ~IsOk(x.err) THEN x.err ELSE OkNum(kSock))
    /\ UNCHANGED <<kOp, kVia, kSock, kDest, kCap, kData, gotHandle, oIter, polls,
                   openDelayMs, last_status, available>>
    /\ KeepConn
    /\ UNCHANGED notSockVars

\* socket_status
StepStatus ==
    /\ kPc = "status"
    /\ \E env \in Envs(ByteAnswers(GetClientStateTcp, Bytes)) :
        LET x == XSocketStatus(kSock, env)
        IN /\ Exchanged(GetClientStateTcp, x, env)
           /\ Returns(IF ~IsOk(x.err) THEN x.err
                      ELSE OkStatus(SocketStatusFrom(x.dests[1].w)))
    /\ UNCHANGED <<kOp, kVia, kSock, kDest, kCap, kData, gotHandle, oIter, polls,
                   openDelayMs, last_status, available>>
    /\ KeepConn
    /\ UNCHANGED notSockVars

\* wifi_status
StepWifiStatus ==
    /\ kPc = "wstatus"
    /\ \E env \in Envs(ByteAnswers(GetConnectionStatus, Bytes)) :
        LET x == XWifiStatus(env)
        IN /\ Exchanged(GetConnectionStatus, x, env)
           /\ Returns(IF ~IsOk(x.err) THEN x.err
                      ELSE OkStatus(WifiStatusFrom(x.dests[1].w)))
    /\ UNCHANGED <<kOp, kVia, kSock, kDest, kCap, kData, gotHandle, oIter, polls,
                   openDelayMs, last_status, available>>
    /\ KeepConn
    /\ UNCHANGED notSockVars

\* wifi_connect up to its polling loop.
StepWifiSet ==
    /\ kPc = "wifiSet"
    /\ \E env \in Envs(ByteAnswers(IF kDest = "None" THEN SetNetwork
                                     ELSE SetNetworkAndPassphrase, {0, 1})) :
        LET x == XSetNetwork(kDest, env)
        IN /\ Exchanged(IF kDest = "None" THEN SetNetwork ELSE SetNetworkAndPassphrase, x, env)
           /\ IF ~IsOk(x.err) THEN Returns(x.err) /\ UNCHANGED last_status
              ELSE /\ last_status' = "UnknownStatus"
                   /\ kPc' = "wifiPoll"
                   /\ UNCHANGED kRet
    /\ UNCHANGED <<kOp, kVia, kSock, kDest, kCap, kData, gotHandle, oIter, polls,
                   openDelayMs, available>>
    /\ KeepConn
    /\ UNCHANGED notSockVars

\* One iteration of wifi_connect's polling loop.
StepWifiPoll ==
    /\ kPc = "wifiPoll"
    /\ WifiLoopHasNext(oIter)
    /\ polls' = polls + 1
    /\ \E env \in Envs(ByteAnswers(GetConnectionStatus, WifiPollBytes)) :
        LET x == XWifiStatus(env)
            st == WifiStatusFrom(x.dests[1].w)
        IN /\ Exchanged(GetConnectionStatus, x, env)
           /\ IF ~IsOk(x.err)
              THEN Returns(x.err) /\ UNCHANGED <<last_status, oIter, openDelayMs>>
              ELSE /\ last_status' = st
                   /\ IF st = "Connected"
                      THEN Returns(OkStatus(st)) /\ UNCHANGED <<oIter, openDelayMs>>
                      ELSE /\ openDelayMs' = openDelayMs + WIFI_POLL_DELAY_MS
                           /\ oIter' = oIter + 1
                           /\ UNCHANGED <<kPc, kRet>>
    /\ UNCHANGED <<kOp, kVia, kSock, kDest, kCap, kData, gotHandle, available>>
    /\ KeepConn
    /\ UNCHANGED notSockVars

\* wifi_connect after its polling loop ran out.
StepWifiTimeout ==
    /\ kPc = "wifiPoll"
    /\ ~WifiLoopHasNext(oIter)
    /\ Returns(WifiConnectionFailed(last_status))
    /\ UNCHANGED <<kOp, kVia, kSock, kDest, kCap, kData, gotHandle, oIter, polls,
                   openDelayMs, last_status, available, xchg, lastFrame, lastBody,
                   lastErr>>
    /\ KeepConn
    /\ UNCHANGED notSockVars

\* socket_open up to its polling loop, alone or as the second call of connect.
StepOpenStart ==
    /\ kPc = "openStart"
    /\ \E env \in Envs(ByteAnswers(StartClientTcp, {0, 1})) :
        LET x == XStartClient(kSock, kDest, env)
        IN /\ Exchanged(StartClientTcp, x, env)
           /\ IF ~IsOk(x.err) THEN Returns(x.err) /\ UNCHANGED last_status
              ELSE IF ResultAbsent(x.dests[1])
              THEN Returns(ConnectionFailed("UnknownStatus")) /\ UNCHANGED last_status
              ELSE /\ last_status' = "UnknownStatus"
                   /\ kPc' = "openPoll"
                   /\ UNCHANGED kRet
    /\ UNCHANGED <<kOp, kVia, kSock, kDest, kCap, kData, gotHandle, oIter, polls,
                   openDelayMs, available>>
    /\ KeepConn
    /\ UNCHANGED notSockVars

\* One iteration of socket_open's polling loop.
StepOpenPoll ==
    /\ kPc = "openPoll"
    /\ OpenLoopHasNext(oIter)
    /\ polls' = polls + 1
    /\ \E env \in Envs(ByteAnswers(GetClientStateTcp, PollBytes)) :
        LET x == XSocketStatus(kSock, env)
            st == SocketStatusFrom(x.dests[1].w)
        IN /\ Exchanged(GetClientStateTcp, x, env)
           /\ IF ~IsOk(x.err)
              THEN Returns(x.err) /\ UNCHANGED <<last_status, oIter, openDelayMs>> /\ KeepConn
              ELSE /\ last_status' = st
                   /\ IF IsEstablished(st)
                      THEN /\ UNCHANGED <<oIter, openDelayMs>>
                           /\ IF kOp = "connect"
                              THEN Returns(OkNum(kSock)) /\ NewConn(kSock)
                              ELSE Returns(OkStatus("Established")) /\ KeepConn
                      ELSE /\ openDelayMs' = openDelayMs + OPEN_POLL_DELAY_MS
                           /\ oIter' = oIter + 1
                           /\ UNCHANGED <<kPc, kRet>>
                           /\ KeepConn
    /\ UNCHANGED <<kOp, kVia, kSock, kDest, kCap, kData, gotHandle, available>>
    /\ UNCHANGED notSockVars

\* socket_open after its polling loop ran out.
StepOpenTimeout ==
    /\ kPc = "openPoll"
    /\ ~OpenLoopHasNext(oIter)
    /\ Returns(ConnectionFailed(last_status))
    /\ UNCHANGED <<kOp, kVia, kSock, kDest, kCap, kData, gotHandle, oIter, polls,
                   openDelayMs, last_status, available, xchg, lastFrame, lastBody,
                   lastErr>>
    /\ KeepConn
    /\ UNCHANGED notSockVars

\* socket_close
StepClose ==
    /\ kPc = "close"
    /\ \E env \in Envs(ByteAnswers(StopClientTcp, {0, 1})) :
        LET x == XStopClient(kSock, env)
        IN /\ Exchanged(StopClientTcp, x, env)
           /\ Returns(x.err)
    /\ UNCHANGED <<kOp, kVia, kSock, kDest, kCap, kData, gotHandle, oIter, polls,
                   openDelayMs, last_status, available>>
    /\ KeepConn
    /\ UNCHANGED notSockVars

\* select_available
StepAccept ==
    /\ kPc = "accept"
    /\ \E env \in Envs(WordAnswers(AvailableDataTcp)) :
        LET x == XAvailableData(kSock, env)
            num == x.dests[1].w % U8_RANGE
            r == TryIntoSocket(num)
        IN /\ Exchanged(AvailableDataTcp, x, env)
           /\ IF ~IsOk(x.err)
              THEN Returns(x.err) /\ UNCHANGED gotHandle /\ KeepConn
              ELSE /\ gotHandle' = num
                   /\ Returns(r)
                   /\ IF IsOk(r) THEN NewConn(num) ELSE KeepConn
    /\ UNCHANGED <<kOp, kVia, kSock, kDest, kCap, kData, oIter, polls, openDelayMs,
                   last_status, available>>
    /\ UNCHANGED notSockVars

\* socket_write
StepWrite ==
    /\ kPc = "write"
    /\ \E env \in Envs(WordAnswers(SendDataTcp)) :
        LET x == XSendData(kSock, kData, env)
        IN /\ Exchanged(SendDataTcp, x, env)
           /\ Returns(IF ~IsOk(x.err) THEN x.err ELSE OkNum(x.dests[1].w))
    /\ UNCHANGED <<kOp, kVia, kSock, kDest, kCap, kData, gotHandle, oIter, polls,
                   openDelayMs, last_status, available>>
    /\ KeepConn
    /\ UNCHANGED notSockVars

\* socket_read: the available-data query.
StepReadAvail ==
    /\ kPc = "readAvail"
    /\ \E env \in Envs(WordAnswers(AvailableDataTcp)) :
        LET x == XAvailableData(kSock, env)
        IN /\ Exchanged(AvailableDataTcp, x, env)
           /\ IF ~IsOk(x.err) THEN Returns(x.err) /\ UNCHANGED available
              ELSE /\ available' = x.dests[1].w
                   /\ kPc' = IF x.dests[1].w = 0 THEN "readStatus" ELSE "readData"
                   /\ UNCHANGED kRet
    /\ UNCHANGED <<kOp, kVia, kSock, kDest, kCap, kData, gotHandle, oIter, polls,
                   openDelayMs, last_status>>
    /\ KeepConn
    /\ UNCHANGED notSockVars

\* socket_read when nothing is available: the status query and the match.
StepReadStatus ==
    /\ kPc = "readStatus"
    /\ \E env \in Envs(ByteAnswers(GetClientStateTcp, ReadStatusBytes)) :
        LET x == XSocketStatus(kSock, env)
            st == SocketStatusFrom(x.dests[1].w)
        IN /\ Exchanged(GetClientStateTcp, x, env)
           /\ IF ~IsOk(x.err) THEN Returns(x.err) /\ UNCHANGED last_status
              ELSE Returns(ReadNothing(st)) /\ last_status' = st
    /\ UNCHANGED <<kOp, kVia, kSock, kDest, kCap, kData, gotHandle, oIter, polls,
                   openDelayMs, available>>
    /\ KeepConn
    /\ UNCHANGED notSockVars

\* socket_read when something is available: the get-data exchange.
StepReadData ==
    /\ kPc = "readData"
    /\ \E env \in Envs(DataAnswers) :
        LET x == XGetDatabuf(kSock, ReqSize(available, kCap), kCap, env)
        IN /\ Exchanged(GetDatabufTcp, x, env)
           /\ Returns(IF ~IsOk(x.err) THEN x.err ELSE OkNum(x.dests[1].w))
    /\ UNCHANGED <<kOp, kVia, kSock, kDest, kCap, kData, gotHandle, oIter, polls,
                   openDelayMs, last_status, available>>
    /\ KeepConn
    /\ UNCHANGED notSockVars

\* The ConnectedSocket goes out of scope, between two operations or while a
\* panic of one of its operations unwinds: Drop::drop.
Drop ==
    /\ conn # NoConn
    /\ kPc \in {"idle", "panicked"}
    /\ \E env \in Envs(ByteAnswers(StopClientTcp, {0, 1})) :
        LET x == XStopClient(conn, env)
        IN /\ Exchanged(StopClientTcp, x, env)
           /\ closes' = closes + 1
           /\ closeArg' = conn
           /\ closeFrames' = closeFrames + (IF x.frame # <<>> THEN 1 ELSE 0)
           /\ closeRes' = x.err
           /\ IF kPc = "panicked" THEN UNCHANGED <<kPc, kRet, kOp>>
              ELSE /\ kOp' = "drop"
                   /\ kRet' = DropResult(x.err)
                   /\ kPc' = "returned"
    /\ conn' = NoConn
    /\ UNCHANGED <<kVia, kSock, kDest, kCap, kData, gotHandle, oIter, polls,
                   openDelayMs, last_status, available>>
    /\ UNCHANGED notSockVars

\* The caller has taken the result; the operation's locals are gone.
Forget ==
    /\ kPc = "returned"
    /\ kPc' = "idle"
    /\ kOp' = "none" /\ kVia' = FALSE /\ kSock' = NoConn /\ kDest' = "-"
    /\ kCap' = 0 /\ kData' = <<>> /\ kRet' = NoRet /\ gotHandle' = NoConn
    /\ oIter' = 0 /\ polls' = 0 /\ openDelayMs' = 0 /\ last_status' = "-"
    /\ available' = 0
    /\ xchg' = [c \in SockCmds |-> 0]
    /\ lastFrame' = <<>> /\ lastBody' = <<>> /\ lastErr' = NoRet
    /\ UNCHANGED conn
    /\ IF conn = NoConn
       THEN closes' = 0 /\ closeArg' = NoConn /\ closeFrames' = 0 /\ closeRes' = NoRet
       ELSE UNCHANGED <<closes, closeArg, closeFrames, closeRes>>
    /\ UNCHANGED notSockVars

SockInit ==
    /\ kPc = "idle"
    /\ kOp = "none" /\ kVia = FALSE /\ kSock = NoConn /\ kDest = "-"
    /\ kCap = 0 /\ kData = <<>> /\ kRet = NoRet /\ gotHandle = NoConn
    /\ oIter = 0 /\ polls = 0 /\ openDelayMs = 0 /\ last_status = "-"
    /\ available = 0
    /\ xchg = [c \in SockCmds |-> 0]
    /\ lastFrame = <<>> /\ lastBody = <<>> /\ lastErr = NoRet
    /\ conn = NoConn
    /\ closes = 0 /\ closeArg = NoConn /\ closeFrames = 0 /\ closeRes = NoRet

(***************************************************************************)
(* Claims about the socket operations (checked under SpecSock).            *)
(***************************************************************************)
Running == kPc \notin {"idle", "returned", "panicked"}
ReturnedFrom(ops) == kPc = "returned" /\ kOp \in ops
\* The request frame of socket_close for socket `num`.
StopFrame(num) == <<CMD_START, StopClientTcp, 1, 1, num, CMD_END, 0, 0>>
\* The last reply carried one parameter of `len` bytes for `cmd`, 1-byte prefix.
Replied8(cmd, len) ==
    /\ lastFrame # <<>>
    /\ Len(lastBody) = 5 + len
    /\ SubSeq(lastBody, 1, 4) = <<CMD_START, cmd + REPLY_FLAG, 1, len>>
    /\ lastBody[5 + len] = CMD_END

C3_ReadNothingAvailable ==
    /\ kPc = "readStatus" =>
          /\ Replied8(AvailableDataTcp, 2) /\ lastBody[5] = 0 /\ lastBody[6] = 0
          /\ available = 0
          /\ xchg[GetDatabufTcp] = 0 /\ xchg[GetClientStateTcp] = 0
    /\ (ReturnedFrom({"socket_read"}) /\ xchg[GetClientStateTcp] > 0) =>
          /\ available = 0
          /\ xchg[GetClientStateTcp] = 1 /\ xchg[AvailableDataTcp] = 1
          /\ xchg[GetDatabufTcp] = 0
          /\ openDelayMs = 0
          /\ Replied8(GetClientStateTcp, 1) =>
                IF lastBody[5] = 0 THEN kRet = Res("Ok", 0, 0)
                ELSE kRet = Res("WouldBlock", 0, 0)

\* socket_read found nothing available on a socket whose status byte is
\* unknown, and signalled would-block.
C3_Witness ==
    /\ ReturnedFrom({"socket_read"})
    /\ available = 0 /\ xchg[GetClientStateTcp] = 1
    /\ Replied8(GetClientStateTcp, 1) /\ lastBody[5] = 200
    /\ kRet.kind = "WouldBlock"

\* The get-data exchange of socket_read succeeded.
ReadGotData == ReturnedFrom({"socket_read"}) /\ xchg[GetDatabufTcp] = 1 /\ IsOk(kRet)

\* C4 as stated: when the available-data query reports a nonzero count and the
\* get-data exchange succeeds, socket_read returns min(available, capacity).
C4_ReturnsMinAvailableCapacity ==
    ReadGotData => kRet.a = (IF available < kCap THEN available ELSE kCap)

\* C4 amended: when the available-data query reports a nonzero count,
\* socket_read requests min(available, capacity as u16) bytes (little-endian in
\* the request) and, when the get-data exchange succeeds, returns the length
\* the co-processor declares in the 2-byte big-endian prefix of its reply,
\* which is at most the capacity.
C4_ReturnsDeclaredLength ==
    /\ (ReturnedFrom({"socket_read"}) /\ xchg[GetDatabufTcp] = 1 /\ lastFrame # <<>>) =>
          /\ available > 0
          /\ SubSeq(lastFrame, 1, 8) = <<CMD_START, GetDatabufTcp, 2, 0, 1, kSock, 0, 2>>
          /\ lastFrame[9] + 256 * lastFrame[10]
               = (IF available < kCap % 65536 THEN available ELSE kCap % 65536)
    /\ ReadGotData =>
          /\ kRet.a = 256 * lastBody[4] + lastBody[5]
          /\ kRet.a <= kCap
          /\ kRet.b = 0

\* socket_read returned fewer bytes than were available and than fit.
C4_Witness ==
    /\ ReadGotData
    /\ available = 2 /\ kCap = 3
    /\ kRet.a = 1

\* socket_open's start-client request succeeded.
StartClientSucceeded == polls > 0 \/ kRet.kind = "SocketConnectionFailed"

\* C5 as stated: if the start-client request succeeds and no status poll ever
\* returns Established, socket_open makes exactly 300 status polls with a 10 ms
\* delay after each and fails with SocketConnectionFailed(last status).
C5_TimeoutAfter300Polls ==
    (ReturnedFrom({"socket_open", "connect"}) /\ StartClientSucceeded /\ ~IsOk(kRet)) =>
        /\ polls = 300
        /\ openDelayMs = 3000
        /\ kRet = ConnectionFailed(last_status)

\* C5 amended: if the start-client request succeeds with its result byte
\* present and every status poll succeeds with a status other than
\* Established, socket_open makes exactly 300 status polls with a 10 ms delay
\* after each (3000 ms) and fails with SocketConnectionFailed(s), s the status
\* of the 300th poll.  Without the result byte it fails with
\* SocketConnectionFailed(UnknownStatus) after no poll; a poll that fails ends
\* it with that poll's error.
C5_TimeoutWhenEveryPollSucceeds ==
    /\ kPc = "openPoll" =>
          /\ polls = oIter /\ polls <= 300
          /\ openDelayMs = 10 * polls
          /\ polls = xchg[GetClientStateTcp]
          /\ ~IsOk(kRet)
    /\ (ReturnedFrom({"socket_open", "connect"}) /\ kRet.kind = "SocketConnectionFailed") =>
          \/ /\ polls = 0 /\ openDelayMs = 0
             /\ xchg[StartClientTcp] = 1
             /\ lastBody = <<CMD_START, StartClientTcp + REPLY_FLAG, 0, CMD_END>>
             /\ kRet.s = "UnknownStatus"
          \/ /\ polls = 300 /\ openDelayMs = 3000
             /\ xchg[GetClientStateTcp] = 300
             /\ Replied8(GetClientStateTcp, 1)
             /\ lastBody[5] # 4
             /\ kRet.s = last_status
             /\ kRet.s = (IF lastBody[5] = 2 THEN "SynSent" ELSE "UnknownStatus")
    /\ (ReturnedFrom({"socket_open", "connect"}) /\ polls > 0
        /\ kRet.kind # "SocketConnectionFailed") =>
          /\ polls <= 300
          /\ openDelayMs = 10 * (polls - 1)
          /\ IsOk(kRet) <=> (Replied8(GetClientStateTcp, 1) /\ lastBody[5] = 4)

\* socket_open gave up after 300 polls whose last one reported SynSent.
C5_Witness ==
    /\ ReturnedFrom({"socket_open"})
    /\ polls = 300 /\ openDelayMs = 3000
    /\ kRet = ConnectionFailed("SynSent")

\* C7: socket_new, server, connect and select_available never return a Socket
\* or ConnectedSocket numbered 255, and no ConnectedSocket has that number;
\* when the handle in the co-processor's reply is 255 they fail with
\* NoSocketAvailable, no ConnectedSocket exists, and neither a start request
\* nor a close request is made.
C7_HandleValidity ==
    /\ conn # INVALID
    /\ (ReturnedFrom({"socket_new", "server", "connect", "select_available"}) /\ IsOk(kRet)) =>
          kRet.a \in 0..254
    /\ (ReturnedFrom({"socket_new", "server", "connect"}) /\ xchg[GetSocket] = 1
        /\ Replied8(GetSocket, 1) /\ lastBody[5] = INVALID) =>
          /\ kRet.kind = "NoSocketAvailable"
          /\ conn = NoConn /\ closes = 0
          /\ \A c \in SockCmds \ {GetSocket} : xchg[c] = 0
    /\ (ReturnedFrom({"select_available"}) /\ Replied8(AvailableDataTcp, 2)
        /\ lastBody[5] = INVALID) =>
          /\ kRet.kind = "NoSocketAvailable"
          /\ conn = NoConn /\ closes = 0
          /\ \A c \in SockCmds \ {AvailableDataTcp} : xchg[c] = 0

\* select_available was given a pending client handle whose low byte is 255.
C7_Witness ==
    /\ ReturnedFrom({"select_available"})
    /\ Replied8(AvailableDataTcp, 2) /\ lastBody[5] = INVALID /\ lastBody[6] = 1
    /\ kRet.kind = "NoSocketAvailable"

\* The multi-byte reply fields that are decoded little-endian in both
\* statements of C8: socket_write's count and select_available's handle.
WriteAndAcceptLittleEndian ==
    /\ (ReturnedFrom({"socket_write"}) /\ IsOk(kRet)) =>
          Replied8(SendDataTcp, 2) /\ kRet.a = lastBody[5] + 256 * lastBody[6]
    /\ (ReturnedFrom({"select_available"}) /\ IsOk(kRet)) =>
          /\ Replied8(AvailableDataTcp, 2)
          /\ kRet.a = (lastBody[5] + 256 * lastBody[6]) % 256
\* The 2-byte length prefix of the get-data reply is decoded big-endian.
LengthPrefixBigEndian ==
    ReadGotData => kRet.a = 256 * lastBody[4] + lastBody[5]

\* C8 as stated: socket_write's count is decoded little-endian, and every other
\* multi-byte reply field except select_available's handle, so socket_read's
\* available count too, is decoded big-endian.
C8_OnlyWriteCountLittleEndian ==
    /\ WriteAndAcceptLittleEndian
    /\ LengthPrefixBigEndian
    /\ kPc \in {"readStatus", "readData"} => available = 256 * lastBody[5] + lastBody[6]

\* C8 amended: socket_write's count, select_available's pending client handle
\* and socket_read's available count are decoded little-endian; the 2-byte
\* length prefixes of a reply, and a Word slot (which no operation of the
\* driver uses: decoded here between operations), are decoded big-endian.
C8_ReplyEndianness ==
    /\ WriteAndAcceptLittleEndian
    /\ LengthPrefixBigEndian
    /\ kPc \in {"readStatus", "readData"} =>
          Replied8(AvailableDataTcp, 2) /\ available = lastBody[5] + 256 * lastBody[6]
    /\ kPc = "idle" =>
          \A f \in WordFields :
             ReceiveResponse(GetSocket, <<Slot("Word", 0)>>, FALSE, "Ok",
                             Answer(GetSocket, FALSE, <<f>>)).dests[1].w = 256 * f[1] + f[2]

\* socket_read was told of one available byte by the reply bytes 1, 0.
C8_Witness ==
    /\ kOp = "socket_read" /\ kPc = "readData"
    /\ lastBody[5] = 1 /\ lastBody[6] = 0
    /\ available = 1

\* The names of the statuses in the order of their codes.
SocketStatusNames ==
    <<"Closed", "Listen", "SynSent", "SynReceived", "Established", "FinWait1",
      "FinWait2", "CloseWait", "Closing", "LastAck", "TimeWait">>
WifiStatusNames ==
    <<"Idle", "NoSsidAvailable", "ScanCompleted", "Connected", "ConnectFailed",
      "ConnectionLost", "Disconnected", "ApListening", "ApConnected", "ApFailed">>
NameOf(names, b) == IF b < Len(names) THEN names[b + 1] ELSE "UnknownStatus"

\* C9: whenever the exchange of socket_status or wifi_status succeeds, whatever
\* the status byte in 0..255, the operation succeeds; bytes 0..10 give
\* Closed..TimeWait in order (0..9 give Idle..ApFailed for wifi_status) and
\* every other byte gives UnknownStatus.
C9_StatusDecodingTotal ==
    /\ (ReturnedFrom({"socket_status"}) /\ Replied8(GetClientStateTcp, 1)) =>
          /\ lastBody[5] \in 0..255
          /\ kRet = OkStatus(NameOf(SocketStatusNames, lastBody[5]))
    /\ (ReturnedFrom({"wifi_status"}) /\ Replied8(GetConnectionStatus, 1)) =>
          /\ lastBody[5] \in 0..255
          /\ kRet = OkStatus(NameOf(WifiStatusNames, lastBody[5]))
    /\ (ReturnedFrom({"socket_status", "wifi_status"}) /\ IsOk(kRet)) =>
          Replied8(IF kOp = "socket_status" THEN GetClientStateTcp
                   ELSE GetConnectionStatus, 1)

\* socket_status was answered with the status byte 200.
C9_Witness ==
    /\ ReturnedFrom({"socket_status"})
    /\ Replied8(GetClientStateTcp, 1) /\ lastBody[5] = 200
    /\ kRet = OkStatus("UnknownStatus")

(***************************************************************************)
(* The scenario of a request over TCP (checked under SpecSock).            *)
(***************************************************************************)
\* The co-processor answers the exchange of this step with one parameter
\* holding `field`, in a well-formed reply without length-16 prefixes.
AnswersWith(cmd, field) ==
    /\ lastFrame' # <<>>
    /\ lastBody' = <<224, cmd + 128, 1, Len(field)>> \o field \o <<238>>
    /\ xchg'[cmd] = xchg[cmd] + 1
\* The steps of the scenario: what each step of the driver does when the
\* co-processor gives the scenario's answer.
ScenarioStart ==
    (kPc = "openStart" /\ kDest = "Ip" /\ AnswersWith(StartClientTcp, <<1>>)) =>
        /\ lastFrame' = <<224, 45, 4, 4, 192, 0, 2, 1, 2, 0, 80, 1, kSock, 1, 0, 238>>
        /\ kPc' = "openPoll" /\ polls' = 0
ScenarioSynSent ==
    (kPc = "openPoll" /\ polls = 0 /\ AnswersWith(GetClientStateTcp, <<2>>)) =>
        /\ kPc' = "openPoll" /\ polls' = 1 /\ last_status' = "SynSent"
        /\ openDelayMs' = openDelayMs + 10
ScenarioEstablished ==
    (kPc = "openPoll" /\ polls = 1 /\ last_status = "SynSent"
       /\ AnswersWith(GetClientStateTcp, <<4>>)) =>
        /\ kPc' = "returned" /\ polls' = 2
        /\ kRet' = IF kOp = "connect" THEN OkNum(kSock) ELSE OkStatus("Established")
        /\ openDelayMs' = openDelayMs
ScenarioWrite ==
    (kPc = "write" /\ kData = GetRequest /\ AnswersWith(SendDataTcp, <<18, 0>>)) =>
        /\ kPc' = "returned" /\ kRet' = OkNum(18)
        /\ SubSeq(lastFrame', 1, 8) = <<224, 68, 2, 0, 1, kSock, 0, 18>>
        /\ SubSeq(lastFrame', 9, 26) = GetRequest
ScenarioReadAvail ==
    (kPc = "readAvail" /\ AnswersWith(AvailableDataTcp, <<0, 0>>)) =>
        /\ kPc' = "readStatus" /\ available' = 0
ScenarioReadClosed ==
    (kPc = "readStatus" /\ AnswersWith(GetClientStateTcp, <<0>>)) =>
        /\ kPc' = "returned" /\ kRet' = OkNum(0)
        /\ xchg'[GetDatabufTcp] = 0

\* C15: in the scenario (start-client to 192.0.2.1:80 answered with a result
\* byte, status polls answered SynSent then Established, the 18-byte write
\* answered with accepted length 18, then 0 bytes available and status
\* Closed), socket_open polls again after SynSent and returns Established at
\* the second poll, socket_write returns 18, and socket_read returns 0.
C15_EndToEndScenario ==
    [][/\ ScenarioStart /\ ScenarioSynSent /\ ScenarioEstablished
       /\ ScenarioWrite /\ ScenarioReadAvail /\ ScenarioReadClosed]_vars

\* socket_open to the literal address returned Established at its second poll.
C15_Witness ==
    /\ ReturnedFrom({"socket_open"}) /\ kDest = "Ip"
    /\ polls = 2 /\ openDelayMs = 10
    /\ lastBody = <<224, 175, 1, 1, 4, 238>>
    /\ kRet = OkStatus("Established")

\* The write of the 18 bytes through the connected socket returned 18.
C15_WitnessWrite ==
    /\ ReturnedFrom({"socket_write"}) /\ kVia /\ kData = GetRequest
    /\ kRet = OkNum(18)

\* The read through the connected socket returned 0 on status Closed.
C15_WitnessRead ==
    /\ ReturnedFrom({"socket_read"}) /\ kVia /\ available = 0
    /\ last_status = "Closed" /\ kRet = OkNum(0)

(***************************************************************************)
(* Bounded waiting (checked under FairSock).                               *)
(***************************************************************************)
\* The exchanges made since the operation was invoked.
RECURSIVE SumOver(_, _)
SumOver(f, S) ==
    IF S = {} THEN 0
    ELSE LET c == CHOOSE x \in S : TRUE IN f[c] + SumOver(f, S \ {c})
ExchangesMade == SumOver(xchg, SockCmds)
\* The operation has ended: it returned, or it panicked.
Ended == kPc \in {"returned", "panicked"}
\* The polls an operation may make, and the delay after each.
PollBudget(op) ==
    IF op \in {"socket_open", "connect"} THEN 300
    ELSE IF op = "wifi_connect" THEN 5 ELSE 0
PollDelay(op) == IF op = "wifi_connect" THEN 1000 ELSE 10

C16_WitnessConnected ==
    /\ ReturnedFrom({"wifi_connect"})
    /\ polls = 3 /\ openDelayMs = 2000
    /\ kRet = OkStatus("Connected")

(***************************************************************************)
(* Errors of an exchange and what the operations do with them (SpecSock).  *)
(***************************************************************************)
\* The last send_and_receive of the operation returned an error.
LastFailed == lastErr # NoRet /\ ~IsOk(lastErr)
\* The command an operation repeats in its polling loop (0: it has no loop).
PollCmd(op) ==
    IF op \in {"socket_open", "connect"} THEN GetClientStateTcp
    ELSE IF op = "wifi_connect" THEN GetConnectionStatus ELSE 0
NoRetryState ==
    /\ lastFrame = <<>> =>
          /\ lastBody = <<>>
          /\ lastErr.kind \in {"none", "ChipSelectTimeout", "ChipSelectPinError", "SpiError"}
    /\ LastFailed =>
          /\ kPc \in {"returned", "panicked"}
          /\ (kOp # "drop" /\ closes = 0) => kRet = lastErr
    /\ \A c \in SockCmds :
          xchg[c] <= (IF c = PollCmd(kOp) THEN polls ELSE 1)
    /\ PollCmd(kOp) # 0 => xchg[PollCmd(kOp)] = polls
    /\ PollCmd(kOp) = 0 => polls = 0
    /\ (LastFailed /\ ReturnedFrom({"socket_open", "connect"}) /\ polls > 0) =>
          oIter = polls - 1 /\ openDelayMs = 10 * (polls - 1)
    /\ ReturnedFrom({"socket_read"}) =>
          /\ xchg[GetClientStateTcp] + xchg[GetDatabufTcp] <= 1
          /\ (LastFailed /\ xchg[GetClientStateTcp] + xchg[GetDatabufTcp] = 0) =>
                xchg[AvailableDataTcp] = 1
NoRetryStep ==
    /\ (Running /\ xchg' # xchg) =>
          /\ \E c \in SockCmds : xchg' = [xchg EXCEPT ![c] = @ + 1]
          /\ (lastErr' # NoRet /\ ~IsOk(lastErr')) =>
                /\ kPc' \in {"returned", "panicked"} /\ kRet' = lastErr'
                /\ openDelayMs' = openDelayMs /\ oIter' = oIter
    /\ kPc = "returned" =>
          /\ kPc' = "idle"
          /\ xchg' = [c \in SockCmds |-> 0]
    /\ kPc = "panicked" =>
          /\ kPc' = "panicked" /\ kRet' = kRet
          /\ closes' = closes + 1
          /\ xchg' = [xchg EXCEPT ![StopClientTcp] = @ + 1]

\* C25: an operation makes one send_and_receive per step of its own: one
\* request frame at most, no reply read when the request failed; when a
\* send_and_receive returns an error the operation returns that error in the
\* same step, with no further exchange, poll or delay; apart from the polls of
\* socket_open and wifi_connect no command is sent twice in one operation.
C25_NoHiddenRetries == []NoRetryState /\ [][NoRetryStep]_vars

\* The second status poll of socket_open failed on the bus: socket_open
\* returned that error after two polls and one delay.
C25_Witness ==
    /\ ReturnedFrom({"socket_open"}) /\ kRet.kind = "SpiError"
    /\ lastErr = kRet
    /\ polls = 2 /\ xchg[GetClientStateTcp] = 2 /\ openDelayMs = 10

\* The available-data query of socket_read got no reply start.
C25_WitnessRead ==
    /\ ReturnedFrom({"socket_read"}) /\ kRet.kind = "ResponseTimeout"
    /\ xchg[AvailableDataTcp] = 1
    /\ xchg[GetClientStateTcp] = 0 /\ xchg[GetDatabufTcp] = 0

\* C26 as stated: the size in the get-data request of socket_read is
\* min(available, capacity) for every capacity, sent as a 16-bit value
\* (low byte first) in a request whose parameters have 2-byte length prefixes.
C26_RequestSize ==
    (kOp = "socket_read" /\ xchg[GetDatabufTcp] = 1 /\ lastFrame # <<>>) =>
        /\ available \in 1..65535
        /\ SubSeq(lastFrame, 1, 8) = <<CMD_START, GetDatabufTcp, 2, 0, 1, kSock, 0, 2>>
        /\ lastFrame[9] + 256 * lastFrame[10] = Min(available, kCap)

\* connect has returned an error although socket_new had given it handle h.
ConnectFailedWith(h) ==
    ReturnedFrom({"connect"}) /\ ~IsOk(kRet) /\ gotHandle = h /\ xchg[StartClientTcp] = 1
\* A stop-client request for socket h has been written.
StopSentFor(h) == xchg[StopClientTcp] > 0 /\ lastFrame = StopFrame(h)

\* C27 as stated: every handle connect obtains is eventually closed: also
\* when connect returns an error from socket_open, a stop-client request for
\* the handle follows.
C27_NoSocketLeak ==
    \A h \in Handles \ {INVALID} : ConnectFailedWith(h) ~> StopSentFor(h)

\* What C27 says of a connect that succeeds: the ConnectedSocket is closed.
HeldIsClosed ==
    \A h \in Handles \ {INVALID} : (conn = h) ~> (closes = 1 /\ closeArg = h)

\* The same at the return of connect: the handle it obtained is then held by
\* a ConnectedSocket (closed when that goes out of scope) or has been closed.
ClosedOrHeldAtReturn ==
    (ReturnedFrom({"connect"}) /\ xchg[StartClientTcp] = 1) =>
        conn = gotHandle \/ xchg[StopClientTcp] > 0

OpenOps == {"socket_open", "connect"}
\* The last exchange was the start-client exchange of socket_open.
JustStarted == kOp \in OpenOps /\ xchg[StartClientTcp] = 1 /\ polls = 0
\* The last status poll succeeded and reported Established.
PolledEstablished ==
    IsOk(lastErr) /\ Replied8(GetClientStateTcp, 1) /\ lastBody[5] = 4
ResultByteState ==
    /\ JustStarted =>
          /\ kPc \in {"openPoll", "returned"}
          /\ kPc = "openPoll" <=> (IsOk(lastErr) /\ Replied8(StartClientTcp, 1))
          /\ (IsOk(lastErr) /\ ~Replied8(StartClientTcp, 1)) =>
                /\ lastBody = <<CMD_START, StartClientTcp + REPLY_FLAG, 0, CMD_END>>
                /\ kRet = ConnectionFailed("UnknownStatus")
          /\ xchg[GetClientStateTcp] = 0
    /\ (kOp \in OpenOps /\ polls > 0) =>
          /\ polls <= OPEN_POLL_BUDGET
          /\ kPc \in {"openPoll", "returned"}
          /\ kPc = "openPoll" => IsOk(lastErr) /\ ~PolledEstablished
          /\ kPc = "returned" =>
                /\ IsOk(kRet) <=> PolledEstablished
                /\ (IsOk(kRet) /\ kOp = "socket_open") => kRet = OkStatus("Established")
                /\ (~IsOk(kRet) /\ IsOk(lastErr)) =>
                      polls = OPEN_POLL_BUDGET /\ kRet.kind = "SocketConnectionFailed"
\* What a status poll leads to is fixed by its own reply and the polls made.
ResultByteStep ==
    (kPc = "openPoll" /\ xchg' # xchg) =>
        /\ polls' = polls + 1
        /\ xchg'[GetClientStateTcp] = xchg[GetClientStateTcp] + 1
        /\ kPc' = "returned" <=>
              \/ lastErr'.kind # "Ok"
              \/ lastBody'[5] = 4
        /\ (kPc' = "returned" /\ lastErr'.kind = "Ok") => kRet'.kind = "Ok"

\* C28: socket_open polls the status if and only if the start-client
\* exchange succeeded with its one result byte in the reply; a reply of zero
\* parameters gives SocketConnectionFailed(UnknownStatus) with no status
\* request; whatever the byte, the result is Established exactly when a
\* status poll, one of at most 300, reports Established, and that poll is the
\* last.
C28_ResultByte == []ResultByteState /\ [][ResultByteStep]_vars

\* Polling starts after a result byte of 0.
C28_Witness ==
    /\ kOp = "socket_open" /\ kPc = "openPoll" /\ polls = 0
    /\ Replied8(StartClientTcp, 1) /\ lastBody[5] = 0

\* No result byte: the failure without a status request.
C28_WitnessAbsent ==
    /\ ReturnedFrom({"socket_open"}) /\ IsOk(lastErr)
    /\ kRet = ConnectionFailed("UnknownStatus")
    /\ polls = 0 /\ xchg[GetClientStateTcp] = 0

(***************************************************************************)
(* receive_response applied to replies of every shape (SpecRecv).          *)
(***************************************************************************)
\* Bounds: the length a reply declares for a parameter, and the parameters
\* of a reply.
MaxDeclared == 3
MaxCount == 2

\* The payload bytes the co-processor sends for a parameter of `len` bytes.
Payload(len) == SubSeq(<<1, 2, 3, 4, 5, 6, 7, 8>>, 1, len)

\* Reply slots and slot lists given to receive_response.
RecvSlotSet ==
    {Slot("Ack", 0), Slot("ExpectByte", 1), Slot("ExpectByte", 7), Slot("Byte", 0),
     Slot("OptionalByte", 0), Slot("Socket", 0), Slot("Word", 0), Slot("LEWord", 0),
     Slot("ByteArray", 2), Slot("Buffer", 3), Slot("Buffer", 2)}
RecvSlotLists ==
    {<<>>} \cup {<<s>> : s \in RecvSlotSet}
    \cup {<<Slot("Byte", 0), t>> : t \in {Slot("OptionalByte", 0), Slot("Byte", 0),
                                          Slot("Word", 0)}}
    \cup {<<Slot("OptionalByte", 0), Slot("Byte", 0)>>}

\* One call of receive_response: its arguments, the result of its select and
\* the wire.  `lens` are the lengths the reply declares, `first` and `op` its
\* first two bytes, `lead` the bytes before them; `params` are the request
\* parameters whose bytes the reply echoes (none unless `echo`).
RecvCase(cmd, slots, use16, sel, lead, first, op, lens, errAt) ==
    [cmd |-> cmd, slots |-> slots, use16 |-> use16, sel |-> sel, lead |-> lead,
     first |-> first, op |-> op, lens |-> lens, echo |-> FALSE, params |-> <<>>,
     wire |-> Wire(lead, IdleByte,
                   <<first, op, Len(lens)>>
                   \o ReplyFields([i \in 1..Len(lens) |-> Payload(lens[i])], use16, 1)
                   \o <<CMD_END>>, errAt)]

\* The reply slot that matches a request parameter; a Bytes parameter is
\* matched by a ByteArray or, if `buf`, by a Buffer of its length.
MatchingSlot(p, buf) ==
    CASE p.t = "Byte" -> Slot("Byte", 0)
      [] p.t = "Word" -> Slot("Word", 0)
      [] p.t = "LEWord" -> Slot("LEWord", 0)
      [] p.t = "Bytes" -> Slot(IF buf THEN "Buffer" ELSE "ByteArray", Len(p.bytes))

\* A call whose wire carries what send_command writes for `params`, with the
\* reply flag set in the command byte as receive_response expects it.
EchoCase(cmd, params, use16, buf) ==
    [cmd |-> cmd, slots |-> [i \in 1..Len(params) |-> MatchingSlot(params[i], buf)],
     use16 |-> use16, sel |-> "Ok", lead |-> 0, first |-> CMD_START,
     op |-> WithReplyFlag(cmd),
     lens |-> [i \in 1..Len(params) |-> DeclaredLen(params[i])],
     echo |-> TRUE, params |-> params,
     wire |-> Wire(0, IdleByte,
                   [RequestFrame(cmd, params, use16) EXCEPT ![2] = WithReplyFlag(cmd)], 0)]

RecvCmd == GetDatabufTcp
RecvLeads == {0, 1, 99, 100}
RecvCases ==
    {RecvCase(RecvCmd, slots, use16, "Ok", lead, first, op, lens, errAt) :
        slots \in RecvSlotLists, use16 \in BOOLEAN, lead \in {0},
        first \in {CMD_START}, op \in {WithReplyFlag(RecvCmd)},
        lens \in SeqsUpTo(0..MaxDeclared, MaxCount), errAt \in {0, 5}}
    \cup {RecvCase(RecvCmd, slots, FALSE, sel, lead, first, op, lens, 0) :
        slots \in {<<Slot("Byte", 0)>>}, sel \in {"Ok"} \cup SelectFailures,
        lead \in RecvLeads, first \in {CMD_START, CMD_ERROR, CMD_END},
        op \in {WithReplyFlag(RecvCmd), RecvCmd, CMD_START, CMD_ERROR},
        lens \in {<<1>>}}
    \cup {RecvCase(RecvCmd, <<Slot("Byte", 0)>>, FALSE, "Ok", lead, CMD_START,
                   WithReplyFlag(RecvCmd), <<1>>, errAt) :
        lead \in RecvLeads, errAt \in {1, 2, 100}}
    \cup {EchoCase(cmd, params, use16, buf) :
        cmd \in SendCmds, params \in SendParamLists, use16 \in BOOLEAN, buf \in BOOLEAN}

NoStart == [err |-> NoRet, pos |-> 0, delays |-> 0]

\* receive_response up to the end of wait_for_response_start.
RecvWait ==
    /\ rPc = "called"
    /\ IF rCase.sel # "Ok"
       THEN /\ rOut' = ReceiveResponse(rCase.cmd, rCase.slots, rCase.use16, rCase.sel,
                                       rCase.wire)
            /\ rPc' = "done"
            /\ UNCHANGED rStart
       ELSE /\ rStart' = WaitForResponseStart(rCase.wire, 0)
            /\ rPc' = "started"
            /\ UNCHANGED rOut
    /\ UNCHANGED rCase
    /\ UNCHANGED notRecvVars

\* receive_response from there to its return.
RecvDecode ==
    /\ rPc = "started"
    /\ rOut' = AfterStart(rCase.cmd, rCase.slots, rCase.use16, rCase.wire, rStart)
    /\ rPc' = "done"
    /\ UNCHANGED <<rCase, rStart>>
    /\ UNCHANGED notRecvVars

\* No call of receive_response is under way.
RecvInit ==
    /\ rPc = "idle"
    /\ rCase = RecvCase(RecvCmd, <<>>, FALSE, "Ok", 0, CMD_START, WithReplyFlag(RecvCmd),
                        <<>>, 0)
    /\ rStart = NoStart
    /\ rOut = Failed(NoRet, 0, <<>>)

\* receive_response has been called.
RecvCalled ==
    /\ rPc = "called"
    /\ rCase \in RecvCases
    /\ rStart = NoStart
    /\ rOut = Failed(NoRet, 0, <<>>)

(***************************************************************************)
(* Claims about receive_response (checked under SpecRecv).                 *)
(***************************************************************************)
\* What the slot that matches request parameter p must hold after decoding.
RoundTrips(p, d, buf) ==
    /\ d.set \/ (p.t = "Bytes" /\ p.bytes = <<>> /\ ~buf)
    /\ p.t \in {"Byte", "Word", "LEWord"} => d.w = p.w /\ d.bytes = <<>>
    /\ p.t = "Bytes" => d.bytes = p.bytes /\ (buf => d.w = Len(p.bytes))

\* C11: in either length-prefix mode, the bytes send_command writes for a
\* parameter list, given to receive_response with the matching slots in the
\* same mode, are accepted, and every slot then holds the value (and, for a
\* Buffer, the length) of its parameter.
C11_EncodeDecodeRoundTrip ==
    (rPc = "done" /\ rCase.echo) =>
        /\ IsOk(rOut.err)
        /\ Len(rOut.dests) = Len(rCase.params)
        /\ \A i \in 1..Len(rCase.params) :
              RoundTrips(rCase.params[i], rOut.dests[i], rCase.slots[i].t = "Buffer")
        /\ rOut.pos = Len(RequestFrame(rCase.cmd, rCase.params, rCase.use16))
                        - 1 - Len(Padding(SentLenAfter(3, rCase.params, rCase.use16, 1) + 1))

\* A big-endian word and a four-byte buffer went round in 16-bit mode.
C11_Witness ==
    /\ rPc = "done" /\ rCase.echo /\ rCase.use16
    /\ rCase.params = <<SendWord(80), SendBytes(<<192, 0, 2, 1>>)>>
    /\ rCase.slots[2].t = "Buffer"
    /\ rOut.dests[1].w = 80
    /\ rOut.dests[2] = Dest(TRUE, 4, <<192, 0, 2, 1>>)

\* The two bytes that end the wait for the reply start, the transfers among
\* the first 100 at which the wire shows one, and the first of them (0: none).
Markers == {CMD_START, CMD_ERROR}
MarkerAt == {i \in 1..100 : ByteAt(rCase.wire, i) \in Markers}
FirstMarkerAt == IF MarkerAt = {} THEN 0 ELSE CHOOSE i \in MarkerAt : \A o \in MarkerAt : i <= o
\* No transfer up to transfer number n fails.
TransfersOkTo(n) == rCase.wire.errAt = 0 \/ rCase.wire.errAt > n
\* receive_response got the bus and has finished waiting for the reply start.
Waited == rPc \in {"started", "done"} /\ rCase.sel = "Ok"
Returned == rPc = "done" /\ rCase.sel = "Ok"
NoneWritten == \A i \in 1..Len(rOut.dests) : rOut.dests[i] = Untouched

\* C12: if the first byte that is 0xE0 or 0xEF in the wait for the reply
\* start is 0xEF, receive_response fails with ErrorResponse, having read
\* nothing after that byte and written no destination; and the wait succeeds
\* only on a byte that is 0xE0.
C12_ErrorSentinel ==
    /\ (Returned /\ FirstMarkerAt # 0 /\ TransfersOkTo(FirstMarkerAt)
          /\ ByteAt(rCase.wire, FirstMarkerAt) = 239) =>
            /\ rOut.err = Res("ErrorResponse", 0, 0)
            /\ rOut.err.kind \notin {"ResponseTimeout", "UnexpectedResponse"}
            /\ rOut.pos = FirstMarkerAt
            /\ NoneWritten
    /\ (Waited /\ IsOk(rStart.err)) => ByteAt(rCase.wire, rStart.pos) = 224

\* The error sentinel came after 99 idle bytes, followed by a well-formed reply.
C12_Witness ==
    /\ Returned /\ rCase.lead = 99 /\ rCase.first = 239
    /\ rCase.op = rCase.cmd + 128
    /\ rOut.err.kind = "ErrorResponse" /\ rOut.pos = 100

\* The size the claim names for a slot (-1: none, a Buffer).
ClaimedSize(slot) ==
    IF slot.t \in {"Ack", "ExpectByte", "Byte", "OptionalByte", "Socket"} THEN 1
    ELSE IF slot.t \in {"Word", "LEWord"} THEN 2
    ELSE IF slot.t = "ByteArray" THEN slot.n ELSE -1
\* The bytes of the reply through the payload of parameter k (0: through the
\* parameter count), counted from the first byte read.
RECURSIVE ReadThrough(_)
ReadThrough(k) ==
    IF k = 0 THEN rCase.lead + 3
    ELSE ReadThrough(k - 1) + (IF rCase.use16 THEN 2 ELSE 1) + rCase.lens[k]
PrefixEnd(k) == ReadThrough(k - 1) + (IF rCase.use16 THEN 2 ELSE 1)
\* The reply starts in time, answers the command, and its parameter k is
\* given to slot k with the length this slot accepts.
WellStarted ==
    /\ ~rCase.echo /\ rCase.lead < 100 /\ rCase.first = 224
    /\ rCase.op = rCase.cmd + 128
Accepted(k) ==
    /\ ClaimedSize(rCase.slots[k]) \in {-1, rCase.lens[k]}
    /\ rCase.slots[k].t = "Buffer" => rCase.lens[k] <= rCase.slots[k].n
    /\ rCase.slots[k].t = "ExpectByte" => rCase.slots[k].n = 1
\* The first parameter whose declared length is not the size of its slot.
Mismatches ==
    {k \in 1..Len(rCase.slots) :
        /\ k <= Len(rCase.lens)
        /\ ClaimedSize(rCase.slots[k]) \notin {-1, rCase.lens[k]}
        /\ \A j \in 1..(k - 1) : Accepted(j)}

\* C13: when the length a reply declares for a fixed-size slot differs from
\* the size of the slot, receive_response fails with
\* MismatchedParamSize(expected, declared) right after the length prefix,
\* before any payload byte of the slot, and the slot's destination and those
\* after it are unwritten.
C13_SizeMismatch ==
    \A k \in Mismatches :
        (Returned /\ WellStarted /\ TransfersOkTo(PrefixEnd(k))) =>
            /\ rOut.err = Res("MismatchedParamSize", ClaimedSize(rCase.slots[k]),
                              rCase.lens[k])
            /\ rOut.pos = PrefixEnd(k)
            /\ \A j \in k..Len(rCase.slots) : rOut.dests[j] = Untouched

\* A word slot met a declared length of 1 after a byte slot was filled, with
\* two-byte length prefixes.
C13_Witness ==
    /\ Returned /\ WellStarted /\ rCase.use16 /\ rCase.wire.errAt = 0
    /\ rCase.slots = <<Slot("Byte", 0), Slot("Word", 0)>>
    /\ rCase.lens = <<1, 1>>
    /\ rOut.err = Res("MismatchedParamSize", 2, 1)
    /\ rOut.dests[1].set /\ ~rOut.dests[2].set

\* The slots after the last parameter the reply declares, when every declared
\* parameter is accepted by its slot.
Exhausted ==
    /\ WellStarted /\ Len(rCase.lens) < Len(rCase.slots)
    /\ \A j \in 1..Len(rCase.lens) : Accepted(j)
    /\ TransfersOkTo(ReadThrough(Len(rCase.lens)))
Beyond == (Len(rCase.lens) + 1)..Len(rCase.slots)

\* C14: once as many parameters are decoded as the reply declares, an
\* OptionalByte slot is passed over without error, without a byte read and
\* with its destination left unset, and the first slot of another type fails
\* with MissingParam(number of parameters decoded).
C14_ExhaustedParamCount ==
    (Returned /\ Exhausted) =>
        /\ rOut.pos = ReadThrough(Len(rCase.lens))
        /\ \A j \in Beyond : ~rOut.dests[j].set
        /\ (\A j \in Beyond : rCase.slots[j].t = "OptionalByte") => IsOk(rOut.err)
        /\ (\E j \in Beyond : rCase.slots[j].t # "OptionalByte") =>
              rOut.err = Res("MissingParam", Len(rCase.lens), 0)

\* An OptionalByte was passed over after a byte was decoded.
C14_Witness ==
    /\ Returned /\ Exhausted
    /\ rCase.slots = <<Slot("Byte", 0), Slot("OptionalByte", 0)>>
    /\ rCase.lens = <<1>>
    /\ IsOk(rOut.err) /\ rOut.dests[1] = Dest(TRUE, 1, <<>>) /\ rOut.dests[2] = Untouched

\* A byte slot found no parameter left after an OptionalByte took the only one.
C14_WitnessMissing ==
    /\ Returned /\ Exhausted
    /\ rCase.slots = <<Slot("OptionalByte", 0), Slot("Byte", 0)>>
    /\ rCase.lens = <<1>>
    /\ rOut.err = Res("MissingParam", 1, 0)

\* C19: the wait for the reply start reads at most 100 bytes and calls
\* delay_ms(1) once after each byte read that is neither 0xE0 nor 0xEF; it
\* fails with ResponseTimeout exactly when 100 bytes were read and none is
\* 0xE0 or 0xEF; and when the first marker is 0xE0, the byte right after it
\* is the one compared with the reply opcode.
C19_ResponseStartTimeout ==
    Waited =>
        /\ rStart.pos <= 100
        /\ rStart.delays = Cardinality({i \in 1..rStart.pos :
                                /\ rCase.wire.errAt # i
                                /\ ByteAt(rCase.wire, i) \notin Markers})
        /\ rStart.err = Res("ResponseTimeout", 0, 0)
              <=> (MarkerAt = {} /\ TransfersOkTo(100))
        /\ (FirstMarkerAt # 0 /\ TransfersOkTo(FirstMarkerAt)
              /\ ByteAt(rCase.wire, FirstMarkerAt) = 224) =>
                /\ IsOk(rStart.err) /\ rStart.pos = FirstMarkerAt
                /\ rPc = "done" => rOut.pos > FirstMarkerAt
                /\ (rPc = "done" /\ TransfersOkTo(FirstMarkerAt + 1)
                      /\ ByteAt(rCase.wire, FirstMarkerAt + 1) # WithReplyFlag(rCase.cmd)) =>
                        rOut.err.kind = "UnexpectedResponse"

\* The start marker was the 100th byte and the reply was decoded.
C19_Witness ==
    /\ Returned /\ rCase.lead = 99 /\ rCase.first = 224
    /\ rStart.delays = 99 /\ IsOk(rOut.err)

\* The start marker was the 101st byte and the wait timed out.
C19_WitnessTimeout ==
    /\ Returned /\ rCase.lead = 100 /\ rCase.first = 224
    /\ rStart.delays = 100 /\ rOut.err.kind = "ResponseTimeout" /\ rOut.pos = 100

\* C20: when the byte v after the start marker is not opcode | 0x80,
\* receive_response fails with UnexpectedResponse(opcode | 0x80, v), having
\* read nothing after v (no parameter count, no parameter) and written no
\* destination; when it is, the parameter count is read.
C20_ReplyOpcodeCheck ==
    (Returned /\ IsOk(rStart.err) /\ TransfersOkTo(rStart.pos + 1) /\ rCase.cmd < 128) =>
        IF ByteAt(rCase.wire, rStart.pos + 1) # rCase.cmd + 128
        THEN /\ rOut.err = Res("UnexpectedResponse", rCase.cmd + 128,
                               ByteAt(rCase.wire, rStart.pos + 1))
             /\ rOut.pos = rStart.pos + 1
             /\ NoneWritten
        ELSE rOut.pos >= rStart.pos + 2

\* The reply repeated the opcode without the reply flag.
C20_Witness ==
    /\ Returned /\ rCase.first = 224 /\ rCase.lead = 1 /\ rCase.op = rCase.cmd
    /\ rOut.err = Res("UnexpectedResponse", 197, 69)
    /\ rOut.pos = 3

\* The slots that take a parameter of the reply: all of them, less the
\* OptionalByte slots passed over after the last declared parameter.
Decoding == {k \in 1..Len(rCase.slots) :
                k <= Len(rCase.lens) \/ rCase.slots[k].t # "OptionalByte"}
\* Every slot is given a parameter that it accepts.
AllAccepted ==
    /\ WellStarted
    /\ Len(rCase.slots) <= Len(rCase.lens)
    /\ \A k \in 1..Len(rCase.slots) : Accepted(k)
    /\ TransfersOkTo(ReadThrough(Len(rCase.slots)))

\* C21: when every slot has been decoded without error and the reply
\* declares more parameters than that, receive_response fails with
\* UnexpectedParam(number of slots decoded), having read nothing after the
\* last slot's payload; and it returns Ok only when the declared count is the
\* number of slots less the OptionalByte slots passed over.
C21_SurplusParams ==
    /\ (Returned /\ AllAccepted) =>
          IF Len(rCase.lens) > Len(rCase.slots)
          THEN /\ rOut.err = Res("UnexpectedParam", Len(rCase.slots), 0)
               /\ rOut.pos = ReadThrough(Len(rCase.slots))
          ELSE IsOk(rOut.err)
    /\ (Returned /\ IsOk(rOut.err)) =>
          /\ Len(rCase.lens) = Cardinality(Decoding)
          /\ Decoding = 1..Len(rCase.lens)

\* A reply of two parameters met one byte slot, which was filled.
C21_Witness ==
    /\ Returned /\ AllAccepted
    /\ rCase.slots = <<Slot("Byte", 0)>> /\ rCase.lens = <<1, 3>>
    /\ rOut.err = Res("UnexpectedParam", 1, 0)
    /\ rOut.dests[1] = Dest(TRUE, 1, <<>>)

\* C30 as stated: whatever length the reply declares for a Buffer slot,
\* receive_response stores bytes only below the capacity of the destination
\* and the length it reports is at most that capacity.
C30_BufferBound ==
    \A k \in 1..Len(rOut.dests) :
        (rPc = "done" /\ rCase.slots[k].t = "Buffer" /\ rOut.dests[k].set) =>
            /\ Len(rOut.dests[k].bytes) <= rCase.slots[k].n
            /\ rOut.dests[k].w <= rCase.slots[k].n

(***************************************************************************)
(* Specifications.                                                         *)
(***************************************************************************)
InitCS == CsInit /\ SendInit /\ SockInit /\ RecvInit

NextCS ==
    \/ CsBegin
    \/ CsPollReady
    \/ CsTimeoutReady
    \/ CsSetLow
    \/ CsPollAck
    \/ CsTimeoutAck
    \/ CsTransfer
    \/ CsRelease
    \/ CsHandOver

SpecCS == InitCS /\ [][NextCS]_vars

InitSend == CsInit /\ SendInit /\ SockInit /\ RecvInit

NextSend ==
    \/ SendBegin
    \/ SendHeader
    \/ SendParam
    \/ SendEnd
    \/ SendPad
    \/ SendOk
    \/ SendForget

SpecSend == InitSend /\ [][NextSend]_vars

InitSock == CsInit /\ SendInit /\ SockInit /\ RecvInit

NextSock ==
    \/ CallDirect
    \/ CallVia
    \/ StepNew
    \/ StepServerStart
    \/ StepStatus
    \/ StepWifiStatus
    \/ StepWifiSet
    \/ StepWifiPoll
    \/ StepWifiTimeout
    \/ StepOpenStart
    \/ StepOpenPoll
    \/ StepOpenTimeout
    \/ StepClose
    \/ StepAccept
    \/ StepWrite
    \/ StepReadAvail
    \/ StepReadStatus
    \/ StepReadData
    \/ Drop
    \/ Forget

SpecSock == InitSock /\ [][NextSock]_vars

\* The driver runs to completion: a call that is under way takes its next
\* step (the operations are synchronous, nothing else runs in between).
DriverStep ==
    \/ StepNew \/ StepServerStart \/ StepStatus \/ StepWifiStatus
    \/ StepWifiSet \/ StepWifiPoll \/ StepWifiTimeout
    \/ StepOpenStart \/ StepOpenPoll \/ StepOpenTimeout
    \/ StepClose \/ StepAccept \/ StepWrite
    \/ StepReadAvail \/ StepReadStatus \/ StepReadData
FairSock == InitSock /\ [][NextSock]_vars /\ WF_vars(DriverStep)
\* Moreover the caller takes each result, and a ConnectedSocket goes out of
\* scope at some time: Drop is enabled whenever no call is under way.
FairScope == FairSock /\ WF_vars(Forget) /\ SF_vars(Drop)

InitRecv == CsInit /\ SendInit /\ SockInit /\ RecvCalled

NextRecv ==
    \/ RecvWait
    \/ RecvDecode

SpecRecv == InitRecv /\ [][NextRecv]_vars

====
